---------------------------- MODULE Spec2Model ----------------------------
(***************************************************************************)
(* India Boundary Corrector, QGIS plugin: the local tile proxy             *)
(* (tile_interceptor.py), the URL matcher (layer_configs.py) and the tile  *)
(* fixer (tile_fixer.py) as one state machine.                             *)
(*                                                                         *)
(* Text is modelled as sequences of one-character strings over printable   *)
(* ASCII, so that percent-coding and template matching are computed, not   *)
(* assumed.                                                                *)
(***************************************************************************)
EXTENDS Integers, Sequences, FiniteSets, TLC

None == "None"

(***************************************************************************)
(* Characters                                                              *)
(***************************************************************************)
\* Printable ASCII, code 32 (space) to 126 (~): ASCII[i] has code i + 31.
\* (The grave accent, code 96, cannot be written in a string here: "<bt>".)
ASCII ==
  << " ", "!", "\"", "#", "$", "%", "&", "'", "(", ")", "*", "+", ",", "-", ".", "/",
     "0", "1", "2", "3", "4", "5", "6", "7", "8", "9", ":", ";", "<", "=", ">", "?",
     "@", "A", "B", "C", "D", "E", "F", "G", "H", "I", "J", "K", "L", "M", "N", "O",
     "P", "Q", "R", "S", "T", "U", "V", "W", "X", "Y", "Z", "[", "\\", "]", "^", "_",
     "<bt>", "a", "b", "c", "d", "e", "f", "g", "h", "i", "j", "k", "l", "m", "n", "o",
     "p", "q", "r", "s", "t", "u", "v", "w", "x", "y", "z", "{", "|", "}", "~" >>

\* What a byte outside printable ASCII decodes to in this model (U+FFFD for a
\* byte that is not valid UTF-8 on its own, a control character otherwise).
OtherChar == "<?>"

\* The code of each character of ASCII; 0 for anything else.
Codes == [c \in {ASCII[i] : i \in 1..Len(ASCII)} |->
            31 + (CHOOSE i \in 1..Len(ASCII) : ASCII[i] = c)]

Ord(c) == IF c \in DOMAIN Codes THEN Codes[c] ELSE 0

Chr(n) == IF n >= 32 /\ n <= 126 THEN ASCII[n - 31] ELSE OtherChar

IsDigit(c) == Ord(c) >= 48 /\ Ord(c) <= 57
IsUpper(c) == Ord(c) >= 65 /\ Ord(c) <= 90
IsLower(c) == Ord(c) >= 97 /\ Ord(c) <= 122
IsAlnum(c) == IsDigit(c) \/ IsUpper(c) \/ IsLower(c)
LowerOf(c) == IF IsUpper(c) THEN Chr(Ord(c) + 32) ELSE c

HexDigits == << "0", "1", "2", "3", "4", "5", "6", "7", "8", "9", "A", "B", "C", "D", "E", "F" >>

IsHex(c) == IsDigit(c) \/ (Ord(LowerOf(c)) >= 97 /\ Ord(LowerOf(c)) <= 102)

HexVal(c) == IF IsDigit(c) THEN Ord(c) - 48 ELSE Ord(LowerOf(c)) - 87

StartsWith(s, p) == Len(s) >= Len(p) /\ SubSeq(s, 1, Len(p)) = p

Drop(s, n) == SubSeq(s, n + 1, Len(s))

(***************************************************************************)
(* urllib percent-coding                                                   *)
(***************************************************************************)
\* urllib.request.unquote: every '%' followed by two hex digits becomes the
\* byte they name; any other '%' is left in place.  It never raises.
RECURSIVE unquote(_)
unquote(s) ==
  IF s = << >> THEN << >>
  ELSE IF s[1] = "%" /\ Len(s) >= 3 /\ IsHex(s[2]) /\ IsHex(s[3])
       THEN << Chr(16 * HexVal(s[2]) + HexVal(s[3])) >> \o unquote(Drop(s, 3))
       ELSE << s[1] >> \o unquote(Drop(s, 1))

\* quote with its default safe='/' instead of safe='': '/' is kept too.
RECURSIVE quote_default_safe(_)
quote_default_safe(s) ==
  IF s = << >> THEN << >>
  ELSE IF IsAlnum(s[1]) \/ s[1] \in {"_", ".", "-", "~", "/"}
       THEN << s[1] >> \o quote_default_safe(Drop(s, 1))
       ELSE << "%", HexDigits[(Ord(s[1]) \div 16) + 1], HexDigits[(Ord(s[1]) % 16) + 1] >>
            \o quote_default_safe(Drop(s, 1))

\* urllib.request.quote(s, safe=''): letters, digits and "_.-~" are kept,
\* every other character becomes %XX in upper-case hex.
RECURSIVE quote(_)
quote(s) ==
  IF s = << >> THEN << >>
  ELSE IF IsAlnum(s[1]) \/ s[1] \in {"_", ".", "-", "~"}
       THEN << s[1] >> \o quote(Drop(s, 1))
       ELSE << "%", HexDigits[(Ord(s[1]) \div 16) + 1], HexDigits[(Ord(s[1]) % 16) + 1] >>
            \o quote(Drop(s, 1))


(***************************************************************************)
(* layer_configs.py: URL templates as regular expressions                  *)
(***************************************************************************)
\* A pattern under construction is a sequence of elements [k, a, b]:
\*   k = "ch"      one character a of regular-expression source text
\*   k = "int"     the fragment (?P<a>\d+), a in {"z", "x", "y"}
\*   k = "cls"     the fragment [a-b]
\*   k = "retina"  the fragment (?:@\d+(?:\.\d+)?x)?
\*   k = "opt"     the fragment a? for a character a
\* and, once parsed by re.compile, "ch" elements have become
\*   k = "lit"     the literal character a.
Ch(c) == [k |-> "ch", a |-> c, b |-> ""]
Frag(kind, x, y) == [k |-> kind, a |-> x, b |-> y]

RECURSIVE Chars(_)
Chars(s) == IF s = << >> THEN << >> ELSE << Ch(s[1]) >> \o Chars(Drop(s, 1))

\* The characters re.escape puts a backslash before (Python 3.7 and later).
ReSpecial == {"(", ")", "[", "]", "{", "}", "?", "*", "+", "-", "|", "^", "$",
              "\\", ".", "&", "~", "#", " "}

RECURSIVE re_escape(_)
re_escape(t) ==
  IF t = << >> THEN << >>
  ELSE (IF t[1] \in ReSpecial THEN << "\\", t[1] >> ELSE << t[1] >>) \o re_escape(Drop(t, 1))

\* str.replace(old, new): left to right, non-overlapping; old is source text.
RECURSIVE Replace(_, _, _)
Replace(p, old, new) ==
  IF p = << >> THEN << >>
  ELSE IF StartsWith(p, Chars(old))
       THEN new \o Replace(Drop(p, Len(old)), old, new)
       ELSE << p[1] >> \o Replace(Drop(p, 1), old, new)

\* re.sub(r'\\{(C)-(C)\\}', '[\1-\2]', pattern) for C = [a-z] and for C = \d:
\* the seven characters  \ { c - d \ }  with c and d in C become [c-d].
InClass(cls, c) == IF cls = "a-z" THEN IsLower(c) ELSE IsDigit(c)

RangeAt(p, cls) ==
  /\ Len(p) >= 7
  /\ \A i \in 1..7 : p[i].k = "ch"
  /\ p[1].a = "\\" /\ p[2].a = "{" /\ InClass(cls, p[3].a) /\ p[4].a = "-"
  /\ InClass(cls, p[5].a) /\ p[6].a = "\\" /\ p[7].a = "}"

RECURSIVE SubRange(_, _)
SubRange(p, cls) ==
  IF p = << >> THEN << >>
  ELSE IF RangeAt(p, cls)
       THEN << Frag("cls", p[3].a, p[5].a) >> \o SubRange(Drop(p, 7), cls)
       ELSE << p[1] >> \o SubRange(Drop(p, 1), cls)

\* re.compile on what is left of the source text: a backslash makes the next
\* character literal, any other character stands for itself (re.escape left
\* no special character without its backslash).
RECURSIVE ParseLiterals(_)
ParseLiterals(p) ==
  IF p = << >> THEN << >>
  ELSE IF p[1].k = "ch" /\ p[1].a = "\\" /\ Len(p) >= 2 /\ p[2].k = "ch"
       THEN << Frag("lit", p[2].a, "") >> \o ParseLiterals(Drop(p, 2))
       ELSE IF p[1].k = "ch"
            THEN << Frag("lit", p[1].a, "") >> \o ParseLiterals(Drop(p, 1))
            ELSE << p[1] >> \o ParseLiterals(Drop(p, 1))

\* _template_to_regex, up to the trailing (?:\?.*)? and the anchors, which
\* MatchFrom applies at the end of the elements.
template_to_regex(template) ==
  LET p0 == Chars(re_escape(template))
      p1 == Replace(p0, << "\\", "{", "z", "\\", "}" >>, << Frag("int", "z", "") >>)
      p2 == Replace(p1, << "\\", "{", "x", "\\", "}" >>, << Frag("int", "x", "") >>)
      p3 == Replace(p2, << "\\", "{", "y", "\\", "}" >>, << Frag("int", "y", "") >>)
      p4 == Replace(p3, << "\\", "{", "s", "\\", "}" >>, << Frag("cls", "a", "z") >>)
      p5 == Replace(p4, << "\\", "{", "r", "\\", "}" >>, << Frag("retina", "", "") >>)
      p6 == SubRange(p5, "a-z")
      p7 == SubRange(p6, "0-9")
      p8 == Replace(p7, << "h", "t", "t", "p", "s", "\\", ":" >>,
                    Chars(<< "h", "t", "t", "p" >>) \o << Frag("opt", "s", "") >>
                      \o Chars(<< ":" >>))
  IN  ParseLiterals(p8)

(***************************************************************************)
(* Matching, as re.match does with re.IGNORECASE: backtracking, greedy.    *)
(***************************************************************************)
NoCaps == [z |-> << >>, x |-> << >>, y |-> << >>]
NoMatch == [ok |-> FALSE, caps |-> NoCaps]

EqIgnoreCase(c, d) == LowerOf(c) = LowerOf(d)

\* [a-b] under IGNORECASE: the character, or its other case, lies in the range.
InRange(c, lo, hi) ==
  \/ (Ord(c) >= Ord(lo) /\ Ord(c) <= Ord(hi))
  \/ (IsUpper(c) /\ Ord(c) + 32 >= Ord(lo) /\ Ord(c) + 32 <= Ord(hi))
  \/ (IsLower(c) /\ Ord(c) - 32 >= Ord(lo) /\ Ord(c) - 32 <= Ord(hi))

\* The length of the run of digits of s that starts at position j.
RECURSIVE DigitRun(_, _)
DigitRun(s, j) == IF j <= Len(s) /\ IsDigit(s[j]) THEN 1 + DigitRun(s, j + 1) ELSE 0

\* Where @\d+(?:\.\d+)?x started at j ends (the position after it), 0 if it
\* does not match there.
RetinaEnd(s, j) ==
  IF ~(j <= Len(s) /\ s[j] = "@") THEN 0
  ELSE LET n == DigitRun(s, j + 1)
           k == j + 1 + n
       IN  IF n = 0 \/ k > Len(s) THEN 0
           ELSE IF EqIgnoreCase(s[k], "x") THEN k + 1
           ELSE IF s[k] = "." /\ DigitRun(s, k + 1) > 0
                   /\ k + 1 + DigitRun(s, k + 1) <= Len(s)
                   /\ EqIgnoreCase(s[k + 1 + DigitRun(s, k + 1)], "x")
                THEN k + 2 + DigitRun(s, k + 1)
                ELSE 0

RECURSIVE MatchFrom(_, _, _, _, _)
RECURSIVE MatchInt(_, _, _, _, _, _)
\* Elements i.. of toks against s from position j, with the groups caps so far.
MatchFrom(toks, i, s, j, caps) ==
  IF i > Len(toks)
  THEN \* (?:\?.*)?$
       IF j = Len(s) + 1 \/ (j <= Len(s) /\ s[j] = "?")
       THEN [ok |-> TRUE, caps |-> caps] ELSE NoMatch
  ELSE LET t == toks[i] IN
    CASE t.k = "lit" ->
           IF j <= Len(s) /\ EqIgnoreCase(s[j], t.a)
           THEN MatchFrom(toks, i + 1, s, j + 1, caps) ELSE NoMatch
      [] t.k = "cls" ->
           IF j <= Len(s) /\ InRange(s[j], t.a, t.b)
           THEN MatchFrom(toks, i + 1, s, j + 1, caps) ELSE NoMatch
      [] t.k = "opt" ->
           LET r == IF j <= Len(s) /\ EqIgnoreCase(s[j], t.a)
                    THEN MatchFrom(toks, i + 1, s, j + 1, caps) ELSE NoMatch
           IN  IF r.ok THEN r ELSE MatchFrom(toks, i + 1, s, j, caps)
      [] t.k = "retina" ->
           LET e == RetinaEnd(s, j)
               r == IF e > 0 THEN MatchFrom(toks, i + 1, s, e, caps) ELSE NoMatch
           IN  IF r.ok THEN r ELSE MatchFrom(toks, i + 1, s, j, caps)
      [] t.k = "int" -> MatchInt(toks, i, s, j, caps, DigitRun(s, j))
      [] OTHER -> NoMatch

\* \d+ at element i: the longest run of n digits first, then shorter ones.
MatchInt(toks, i, s, j, caps, n) ==
  IF n = 0 THEN NoMatch
  ELSE LET r == MatchFrom(toks, i + 1, s, j + n,
                          [caps EXCEPT ![toks[i].a] = SubSeq(s, j, j + n - 1)])
       IN  IF r.ok THEN r ELSE MatchInt(toks, i, s, j, caps, n - 1)

\* pattern.match(url)
PatternMatch(toks, url) == MatchFrom(toks, 1, url, 1, NoCaps)

\* The names of the groups of a compiled pattern (match.groupdict()'s keys).
Groups(toks) == {toks[i].a : i \in {n \in 1..Len(toks) : toks[n].k = "int"}}

\* int() of a string of decimal digits.
RECURSIVE ToInt(_)
ToInt(d) == IF d = << >> THEN 0 ELSE 10 * ToInt(SubSeq(d, 1, Len(d) - 1)) + (Ord(d[Len(d)]) - 48)


(***************************************************************************)
(* The style config table.  configs.json is loaded at import and is not    *)
(* part of the sources: the table below is a sample with six providers,    *)
(* written with the keys the code reads.  Widths and factors are decimal   *)
(* literals, given by their number of tenths.                              *)
(***************************************************************************)
\* https://t.e/{z}/{x}/{y}.png
TemplateOsm ==
  << "h", "t", "t", "p", "s", ":", "/", "/", "t", ".", "e", "/", "{", "z", "}", "/", "{", "x", "}", "/", "{", "y", "}", ".", "p", "n", "g" >>
\* https://{s}.c.e/{z}/{x}/{y}{r}.png
TemplateCarto ==
  << "h", "t", "t", "p", "s", ":", "/", "/", "{", "s", "}", ".", "c", ".", "e", "/", "{", "z", "}", "/", "{", "x", "}", "/", "{", "y", "}", "{", "r", "}", ".", "p", "n", "g" >>
\* https://t.e/{y}/{x}/{z}.png{r}
TemplateRetinaYXZ ==
  << "h", "t", "t", "p", "s", ":", "/", "/", "t", ".", "e", "/", "{", "y", "}", "/", "{", "x", "}", "/", "{", "z", "}", ".", "p", "n", "g", "{", "r", "}" >>
\* https://t.e/{z}/{x}/{y}.png{r}
TemplateRetinaZXY ==
  << "h", "t", "t", "p", "s", ":", "/", "/", "t", ".", "e", "/", "{", "z", "}", "/", "{", "x", "}", "/", "{", "y", "}", ".", "p", "n", "g", "{", "r", "}" >>
\* https://q.e/1/{x}/{y}.png : no {z} placeholder
TemplateFixedZoom ==
  << "h", "t", "t", "p", "s", ":", "/", "/", "q", ".", "e", "/", "1", "/", "{", "x", "}", "/", "{", "y", "}", ".", "p", "n", "g" >>
\* https://q.e/{z}/{x}/{y}.png
TemplateQ ==
  << "h", "t", "t", "p", "s", ":", "/", "/", "q", ".", "e", "/", "{", "z", "}", "/", "{", "x", "}", "/", "{", "y", "}", ".", "p", "n", "g" >>

\* https://{a-c}.r.e/{z}/{x}/{y}.png : a range of subdomain letters
TemplateRangeLetter ==
  << "h", "t", "t", "p", "s", ":", "/", "/", "{", "a", "-", "c", "}", ".", "r", ".", "e", "/", "{", "z", "}", "/", "{", "x", "}", "/", "{", "y", "}", ".", "p", "n", "g" >>
\* https://{1-4}.r.e/{z}/{x}/{y}.png : a range of subdomain digits
TemplateRangeDigit ==
  << "h", "t", "t", "p", "s", ":", "/", "/", "{", "1", "-", "4", "}", ".", "r", ".", "e", "/", "{", "z", "}", "/", "{", "x", "}", "/", "{", "y", "}", ".", "p", "n", "g" >>

\* https://n.e/{x}/{y}.png : no {z} placeholder
TemplateNoZoom ==
  << "h", "t", "t", "p", "s", ":", "/", "/", "n", ".", "e", "/", "{", "x", "}", "/", "{", "y", "}", ".", "p", "n", "g" >>

\* The third entry overlaps the first (its templates match every URL the
\* first one's does) and has two templates that match the same URLs; the
\* fourth has a template without one of the three coordinate placeholders;
\* the fifth has the two kinds of range placeholder; the sixth has no
\* template with the three coordinate placeholders.
LAYER_CONFIGS ==
  << [id |-> "osm-carto", startZoom |-> 1, zoomThreshold |-> 5,
      tileUrlTemplates |-> << TemplateOsm >>,
      lineStyles |-> << [color |-> "green"], [color |-> "red", startZoom |-> 6] >>],
     [id |-> "cartodb-dark",
      tileUrlTemplates |-> << TemplateCarto >>,
      lineStyles |-> << [color |-> "white", endZoom |-> 4] >>],
     [id |-> "retina-tiles", delWidthFactor |-> 20,
      lineWidthStops |-> << [k |-> << "4" >>, v |-> 10], [k |-> << "6" >>, v |-> 30] >>,
      tileUrlTemplates |-> << TemplateRetinaYXZ, TemplateRetinaZXY >>,
      lineStyles |-> << [color |-> "black"], [color |-> "white", widthFraction |-> 5] >>],
     [id |-> "fixed-zoom",
      tileUrlTemplates |-> << TemplateFixedZoom, TemplateQ >>],
     [id |-> "range-hosts",
      tileUrlTemplates |-> << TemplateRangeLetter, TemplateRangeDigit >>],
     [id |-> "no-zoom",
      tileUrlTemplates |-> << TemplateNoZoom >>] >>

ConfigIds == 1..Len(LAYER_CONFIGS)

\* match_url's "return None", for a result that is otherwise an index of the table.
NoConfig == 0

\* dict.get(key, default)
Get(d, key, default) == IF key \in DOMAIN d THEN d[key] ELSE default

\* config['_compiled_patterns'], as _compile_config_patterns computes it.
CompiledPatterns ==
  [c \in ConfigIds |->
     LET ts == Get(LAYER_CONFIGS[c], "tileUrlTemplates", << >>)
     IN  [i \in 1..Len(ts) |-> template_to_regex(ts[i])]]

\* Some pattern of config c matches url.
ConfigMatches(c, url) ==
  \E i \in 1..Len(CompiledPatterns[c]) : PatternMatch(CompiledPatterns[c][i], url).ok

\* match_url going on after a match: the last matching config is returned.
RECURSIVE FirstMatch_last(_, _)
FirstMatch_last(url, c) ==
  IF c > Len(LAYER_CONFIGS) THEN NoConfig
  ELSE IF FirstMatch_last(url, c + 1) # NoConfig THEN FirstMatch_last(url, c + 1)
  ELSE IF ConfigMatches(c, url) THEN c ELSE NoConfig

\* match_url: the first config of the table, from c on, with a matching
\* pattern (the two nested for loops).
RECURSIVE FirstMatch(_, _)
FirstMatch(url, c) ==
  IF c > Len(LAYER_CONFIGS) THEN NoConfig
  ELSE IF ConfigMatches(c, url) THEN c ELSE FirstMatch(url, c + 1)

match_url(url) == FirstMatch(url, 1)

\* The configs match_url called _compile_config_patterns on when it returned
\* config: all up to that one, the whole table when it returned None.
Visited(config) == IF config = NoConfig THEN ConfigIds ELSE 1..config

\* extract_coords: z, x, y of the first pattern of the config that matches
\* and has the three groups; None otherwise.
NoCoords == [found |-> FALSE, z |-> 0, x |-> 0, y |-> 0]

RECURSIVE CoordsFrom(_, _, _)
RECURSIVE CoordsOf(_, _, _, _)
\* The loop over the config's patterns, from pattern i on.
CoordsFrom(url, c, i) ==
  IF i > Len(CompiledPatterns[c]) THEN NoCoords
  ELSE CoordsOf(url, c, i, PatternMatch(CompiledPatterns[c][i], url))

\* The loop's body without "if 'z' in groups and 'x' in groups and 'y' in
\* groups": the first pattern that matches decides.
CoordsOf_any_groups(url, c, i, m) ==
  IF m.ok
  THEN [found |-> TRUE, z |-> ToInt(m.caps.z), x |-> ToInt(m.caps.x), y |-> ToInt(m.caps.y)]
  ELSE CoordsFrom(url, c, i + 1)

\* The loop's body for pattern i, whose match is m.
CoordsOf(url, c, i, m) ==
  IF m.ok /\ {"z", "x", "y"} \subseteq Groups(CompiledPatterns[c][i])
  THEN [found |-> TRUE, z |-> ToInt(m.caps.z), x |-> ToInt(m.caps.x), y |-> ToInt(m.caps.y)]
  ELSE CoordsFrom(url, c, i + 1)

extract_coords(url, c) == CoordsFrom(url, c, 1)

\* get_line_styles_for_zoom: the indices of the styles active at zoom z, in
\* declared order; endZoom defaults to infinity.
get_line_styles_for_zoom(c, z) ==
  LET styles == Get(LAYER_CONFIGS[c], "lineStyles", << >>)
      start_zoom == Get(LAYER_CONFIGS[c], "startZoom", 0)
  IN  SelectSeq([i \in 1..Len(styles) |-> i],
                LAMBDA i : /\ Get(styles[i], "startZoom", start_zoom) <= z
                           /\ ("endZoom" \notin DOMAIN styles[i] \/ z <= styles[i].endZoom))

(***************************************************************************)
(* Floating point.  The widths are Python floats: binary floating point,   *)
(* every operation rounded to the nearest representable value, ties to     *)
(* even.  The model keeps that arithmetic with a significand of Precision  *)
(* bits (53 in Python) and a smallest spacing of 2^-FracBits, and holds a  *)
(* float as the integer number of such spacings.                           *)
(***************************************************************************)
Precision == 6
FracBits == 10

\* 1.0
One == 2^FracBits

\* The spacing of the floats around v >= 0.
RECURSIVE Grain(_)
Grain(v) == IF v < 2^Precision THEN 1 ELSE 2 * Grain(v \div 2)

\* The float nearest to n/d spacings, for n >= 0 and d > 0.
RoundNearest(n, d) ==
  LET g == Grain(n \div d)
      m == n \div (d * g)
      r == n - m * d * g
  IN  IF 2 * r > d * g \/ (2 * r = d * g /\ m % 2 = 1) THEN (m + 1) * g ELSE m * g

Fl(n, d) == IF n < 0 THEN 0 - RoundNearest(0 - n, d) ELSE RoundNearest(n, d)

\* The float a decimal literal with one decimal place denotes, from its
\* number of tenths: 0.3 is FloatOf(3).
FloatOf(tenths) == Fl(tenths * One, 10)
\* a + b, a - b, a * b on floats, and i / j on ints.
fadd(a, b) == Fl(a + b, 1)
fsub(a, b) == Fl(a - b, 1)
fmul(a, b) == Fl(a * b, One)
truediv(i, j) == Fl(i * One, j)

(***************************************************************************)
(* get_line_width.  line_width_stops is a dict from zoom, written as a     *)
(* string, to width: here the sequence of its items [k, v] in the dict's   *)
(* order, v in tenths.                                                     *)
(***************************************************************************)
\* [(int(k), v) for k, v in line_width_stops.items()]
Items(line_width_stops) ==
  [i \in 1..Len(line_width_stops) |->
     [z |-> ToInt(line_width_stops[i].k), w |-> FloatOf(line_width_stops[i].v)]]

\* The order of the tuples (z, w).
TupleLess(a, b) == a.z < b.z \/ (a.z = b.z /\ a.w < b.w)

RECURSIVE Insert(_, _)
Insert(s, e) ==
  IF s = << >> THEN << e >>
  ELSE IF TupleLess(e, Head(s)) THEN << e >> \o s
  ELSE << Head(s) >> \o Insert(Tail(s), e)

RECURSIVE sorted(_)
sorted(s) ==
  IF s = << >> THEN << >> ELSE Insert(sorted(SubSeq(s, 1, Len(s) - 1)), s[Len(s)])

\* The for loop over adjacent stops, from index i on.
RECURSIVE Segment(_, _, _)
Segment(z, stops, i) ==
  IF i > Len(stops) - 1 THEN stops[Len(stops)].w
  ELSE IF stops[i].z <= z /\ z <= stops[i + 1].z
  THEN fadd(stops[i].w,
            fmul(truediv(z - stops[i].z, stops[i + 1].z - stops[i].z),
                 fsub(stops[i + 1].w, stops[i].w)))
  ELSE Segment(z, stops, i + 1)

\* get_line_width from "if not stops" on.
Interpolate(z, stops) ==
  IF stops = << >> THEN One
  ELSE IF z <= stops[1].z THEN stops[1].w
  ELSE IF z >= stops[Len(stops)].z THEN stops[Len(stops)].w
  ELSE Segment(z, stops, 1)

\* get_line_width without sorted(): the stops in the dict's order.
get_line_width_unsorted(z, line_width_stops) == Interpolate(z, Items(line_width_stops))

get_line_width(z, line_width_stops) == Interpolate(z, sorted(Items(line_width_stops)))

(***************************************************************************)
(* tile_fixer.py                                                           *)
(***************************************************************************)
LayerNames == {"to-add-osm", "to-del-osm", "to-add-ne", "to-del-ne"}

\* The tiles stored in the archive's tile-data region, by the coordinate
\* whose tileId a directory entry covers: one tile, at 5/1/2, with a line to
\* add and a line to delete in its OSM layers.
StoredTiles ==
  << 5, 1, 2 >> :> [n \in LayerNames |->
                      CASE n = "to-add-osm" -> << "lineA" >>
                        [] n = "to-del-osm" -> << "lineD" >>
                        [] OTHER -> << >>]
NoTiles == [k \in {} |-> [n \in LayerNames |-> << >>]]

\* The archive file on disk, by what _ensure_pmtiles and _read_header read of
\* it: whether it exists, its first 7 bytes, the version byte (-1: the file
\* ends before it), and how many bytes follow the version byte; and the
\* tiles its directories lead to.
ValidArchive   == [exists |-> TRUE,  magic |-> "PMTiles", version |-> 3,  rest |-> 119, tiles |-> StoredTiles]
MissingArchive == [exists |-> FALSE, magic |-> "",        version |-> -1, rest |-> 0,   tiles |-> NoTiles]
BadMagic       == [exists |-> TRUE,  magic |-> "PMTilez", version |-> 3,  rest |-> 119, tiles |-> StoredTiles]
BadVersion     == [exists |-> TRUE,  magic |-> "PMTiles", version |-> 2,  rest |-> 119, tiles |-> StoredTiles]
Truncated      == [exists |-> TRUE,  magic |-> "PMTiles", version |-> 3,  rest |-> 40,  tiles |-> NoTiles]

ArchiveFiles == {ValidArchive, MissingArchive, BadMagic, BadVersion, Truncated}

\* self._header: None, or the dict _read_header returns (its fields are all
\* read from the 119 bytes and are never used afterwards; one stands for them).
NoHeader == [parsed |-> FALSE, tile_type |-> 0]

\* _read_header: the header, or the exception it raises ("no": none).
read_header(file) ==
  IF file.magic # "PMTiles" THEN [raised |-> "ValueError", header |-> NoHeader]
  ELSE IF file.version = -1 THEN [raised |-> "struct.error", header |-> NoHeader]
  ELSE IF file.version # 3 THEN [raised |-> "ValueError", header |-> NoHeader]
  ELSE IF file.rest < 64 THEN [raised |-> "struct.error", header |-> NoHeader]
  ELSE IF file.rest < 76 THEN [raised |-> "IndexError", header |-> NoHeader]
  ELSE [raised |-> "no", header |-> [parsed |-> TRUE, tile_type |-> 1]]

\* _ensure_pmtiles on a fixer whose _pmtiles and _header are pm and hd: their
\* new values and the exception raised.  The handle is assigned before the
\* header is read, so it stays assigned when _read_header raises.
ensure_pmtiles(pm, hd, file) ==
  IF pm # None THEN [pmtiles |-> pm, header |-> hd, raised |-> "no"]
  ELSE IF ~file.exists
       THEN [pmtiles |-> None, header |-> hd, raised |-> "FileNotFoundError"]
       ELSE LET r == read_header(file)
            IN  [pmtiles |-> "open",
                 header |-> IF r.raised = "no" THEN r.header ELSE hd,
                 raised |-> r.raised]

\* The dict get_corrections builds, and the {} it returns on failure.
EmptyCorrections == [n \in LayerNames |-> << >>]
EmptyDict == [n \in {} |-> << >>]

\* TileFixer.__init__.  calls and lookups are history, not fields of the
\* object: per cache key, how many times get_corrections was called and how
\* many times it went past the cache test into its try block.
NewFixer ==
  [pmtiles |-> None, header |-> NoHeader, cache |-> [k \in {} |-> EmptyCorrections],
   calls |-> [k \in {} |-> 0], lookups |-> [k \in {} |-> 0]]

Bump(f, k) == (k :> (IF k \in DOMAIN f THEN f[k] + 1 ELSE 1)) @@ f

\* get_corrections without its "except Exception": what _ensure_pmtiles
\* raises reaches the caller.
get_corrections_uncaught(fx, file, z, x, y) ==
  LET cache_key == << z, x, y >>
      called == [fx EXCEPT !.calls = Bump(fx.calls, cache_key)] IN
  IF cache_key \in DOMAIN fx.cache
  THEN [fixer |-> called, ret |-> fx.cache[cache_key], raised |-> "no"]
  ELSE LET e == ensure_pmtiles(fx.pmtiles, fx.header, file)
           opened == [called EXCEPT !.pmtiles = e.pmtiles, !.header = e.header,
                                    !.lookups = Bump(fx.lookups, cache_key)]
       IN  IF e.raised # "no"
           THEN [fixer |-> opened, ret |-> EmptyDict, raised |-> e.raised]
           ELSE [fixer |-> [opened EXCEPT !.cache = (cache_key :> EmptyCorrections) @@ fx.cache],
                 ret |-> EmptyCorrections, raised |-> "no"]

\* get_corrections without "self._cache[cache_key] = corrections".
get_corrections_nocache(fx, file, z, x, y) ==
  LET cache_key == << z, x, y >>
      called == [fx EXCEPT !.calls = Bump(fx.calls, cache_key)] IN
  IF cache_key \in DOMAIN fx.cache
  THEN [fixer |-> called, ret |-> fx.cache[cache_key], raised |-> "no"]
  ELSE LET e == ensure_pmtiles(fx.pmtiles, fx.header, file)
           opened == [called EXCEPT !.pmtiles = e.pmtiles, !.header = e.header,
                                    !.lookups = Bump(fx.lookups, cache_key)]
       IN  IF e.raised # "no"
           THEN [fixer |-> opened, ret |-> EmptyDict, raised |-> "no"]
           ELSE [fixer |-> opened, ret |-> EmptyCorrections, raised |-> "no"]

\* get_corrections without the cache test and with its result stored in the
\* except branch too.
get_corrections_store_always(fx, file, z, x, y) ==
  LET cache_key == << z, x, y >>
      called == [fx EXCEPT !.calls = Bump(fx.calls, cache_key)]
      e == ensure_pmtiles(fx.pmtiles, fx.header, file)
      opened == [called EXCEPT !.pmtiles = e.pmtiles, !.header = e.header,
                               !.lookups = Bump(fx.lookups, cache_key)]
  IN  IF e.raised # "no"
      THEN [fixer |-> [opened EXCEPT !.cache = (cache_key :> EmptyDict) @@ fx.cache],
            ret |-> EmptyDict, raised |-> "no"]
      ELSE [fixer |-> [opened EXCEPT !.cache = (cache_key :> EmptyCorrections) @@ fx.cache],
            ret |-> EmptyCorrections, raised |-> "no"]

\* get_corrections with the lookup done: the features the archive stores
\* for the tile, and empty lists for a tile it does not store.
get_corrections_reads_tiles(fx, file, z, x, y) ==
  LET cache_key == << z, x, y >>
      called == [fx EXCEPT !.calls = Bump(fx.calls, cache_key)] IN
  IF cache_key \in DOMAIN fx.cache
  THEN [fixer |-> called, ret |-> fx.cache[cache_key], raised |-> "no"]
  ELSE LET e == ensure_pmtiles(fx.pmtiles, fx.header, file)
           opened == [called EXCEPT !.pmtiles = e.pmtiles, !.header = e.header,
                                    !.lookups = Bump(fx.lookups, cache_key)]
           found == Get(file.tiles, cache_key, EmptyCorrections)
       IN  IF e.raised # "no"
           THEN [fixer |-> opened, ret |-> EmptyDict, raised |-> "no"]
           ELSE [fixer |-> [opened EXCEPT !.cache = (cache_key :> found) @@ fx.cache],
                 ret |-> found, raised |-> "no"]

\* get_corrections(z, x, y) on a fixer: the fixer afterwards, the value
\* returned and the exception raised ("no": none).  A cached value is
\* returned as it is; otherwise the archive is opened if it is not open yet
\* and a dict of four empty lists is built, stored and returned: the
\* archive's directories and tiles are not read.  Every exception is caught
\* and {} returned.
get_corrections(fx, file, z, x, y) ==
  LET cache_key == << z, x, y >>
      called == [fx EXCEPT !.calls = Bump(fx.calls, cache_key)] IN
  IF cache_key \in DOMAIN fx.cache
  THEN [fixer |-> called, ret |-> fx.cache[cache_key], raised |-> "no"]
  ELSE LET e == ensure_pmtiles(fx.pmtiles, fx.header, file)
           opened == [called EXCEPT !.pmtiles = e.pmtiles, !.header = e.header,
                                    !.lookups = Bump(fx.lookups, cache_key)]
       IN  IF e.raised # "no"
           THEN [fixer |-> opened, ret |-> EmptyDict, raised |-> "no"]
           ELSE [fixer |-> [opened EXCEPT !.cache = (cache_key :> EmptyCorrections) @@ fx.cache],
                 ret |-> EmptyCorrections, raised |-> "no"]

\* Tile bytes: upstream bytes carry an id and whether PIL can decode them;
\* bytes fix_tile produces are the re-encoded image with its strokes.
Raw(id, decodable) == [id |-> id, img |-> decodable, reenc |-> FALSE, strokes |-> << >>]
NoBytes == Raw("None", FALSE)

\* config.get('lineWidthStops', {'1': 0.5, '10': 2.5})
DefaultStops == << [k |-> << "1" >>, v |-> 5], [k |-> << "1", "0" >>, v |-> 25] >>

\* base_width = get_line_width(z, line_width_stops)
base_width(c, z) == get_line_width(z, Get(LAYER_CONFIGS[c], "lineWidthStops", DefaultStops))

\* width=max(1, int(width)) in _draw_linestring: the float truncated to an
\* int, and 1 when that is less.
line_width(width) == IF width \div One < 1 THEN 1 ELSE width \div One

\* One call of _draw_feature: the width it is given, a float, and the
\* width its draw.line calls are given, an int.
Stroke(kind, feature, color, width) ==
  [kind |-> kind, feature |-> feature, color |-> color,
   width |-> width, line_width |-> line_width(width)]

\* The draw calls of fix_tile: every delete feature first, then, for each
\* active style in order, every add feature.
RECURSIVE AddStrokes(_, _, _, _)
AddStrokes(c, styles, feats, base) ==
  IF styles = << >> THEN << >>
  ELSE [i \in 1..Len(feats) |->
          Stroke("add", feats[i],
                 Get(LAYER_CONFIGS[c].lineStyles[styles[1]], "color", "green"),
                 fmul(base, FloatOf(Get(LAYER_CONFIGS[c].lineStyles[styles[1]],
                                        "widthFraction", 10))))]
       \o AddStrokes(c, Drop(styles, 1), feats, base)

DelStrokes(feats, del_width) ==
  [i \in 1..Len(feats) |-> Stroke("del", feats[i], "gray", del_width)]

\* del_width = base_width * del_width_factor
del_width(c, z) == fmul(base_width(c, z), FloatOf(Get(LAYER_CONFIGS[c], "delWidthFactor", 15)))

\* fix_tile returning None, with the fixer as it is then.
ReturnNone(fx) == [fixer |-> fx, none |-> TRUE, data |-> NoBytes]

\* fix_tile_draw without the "Skip if no corrections to apply" test.
fix_tile_draw_always(fx, tile_data, c, z, add_features, del_features) ==
  IF ~tile_data.img THEN ReturnNone(fx)
  ELSE [fixer |-> fx, none |-> FALSE,
        data |-> [id |-> tile_data.id, img |-> TRUE, reenc |-> TRUE,
                  strokes |-> DelStrokes(del_features, del_width(c, z))
                              \o AddStrokes(c, get_line_styles_for_zoom(c, z), add_features, base_width(c, z))]]

\* fix_tile_draw with "Draw addition lines" before "Apply deletion blur".
fix_tile_draw_add_first(fx, tile_data, c, z, add_features, del_features) ==
  IF add_features = << >> /\ del_features = << >> THEN ReturnNone(fx)
  ELSE IF ~tile_data.img THEN ReturnNone(fx)
  ELSE [fixer |-> fx, none |-> FALSE,
        data |-> [id |-> tile_data.id, img |-> TRUE, reenc |-> TRUE,
                  strokes |-> AddStrokes(c, get_line_styles_for_zoom(c, z), add_features, base_width(c, z))
                              \o DelStrokes(del_features, del_width(c, z))]]

\* fix_tile from "Skip if no corrections to apply" on.
fix_tile_draw(fx, tile_data, c, z, add_features, del_features) ==
  IF add_features = << >> /\ del_features = << >> THEN ReturnNone(fx)
  ELSE IF ~tile_data.img THEN ReturnNone(fx)
  ELSE [fixer |-> fx, none |-> FALSE,
        data |-> [id |-> tile_data.id, img |-> TRUE, reenc |-> TRUE,
                  strokes |-> DelStrokes(del_features, del_width(c, z))
                              \o AddStrokes(c, get_line_styles_for_zoom(c, z), add_features, base_width(c, z))]]

\* fix_tile once get_corrections has returned g: the choice of the layers by
\* the zoom threshold.
fix_tile_select(g, tile_data, c, z) ==
  IF DOMAIN g.ret = {} THEN ReturnNone(g.fixer)
  ELSE IF z >= Get(LAYER_CONFIGS[c], "zoomThreshold", 5)
       THEN fix_tile_draw(g.fixer, tile_data, c, z,
                          Get(g.ret, "to-add-osm", << >>), Get(g.ret, "to-del-osm", << >>))
       ELSE fix_tile_draw(g.fixer, tile_data, c, z,
                          Get(g.ret, "to-add-ne", << >>), Get(g.ret, "to-del-ne", << >>))

\* fix_tile(tile_data, config, z, x, y): the fixer afterwards and the bytes
\* returned (none: it returned None).  have_pil: PIL could be imported.
fix_tile(fx, file, pil, tile_data, c, z, x, y) ==
  IF ~pil THEN ReturnNone(fx)
  ELSE fix_tile_select(get_corrections(fx, file, z, x, y), tile_data, c, z)

(***************************************************************************)
(* Bounds and inputs                                                       *)
(***************************************************************************)
\* Servers created by enable() in one run.
MaxServers == 2
\* Ports, from the base port up, that other processes bind and release one by one.
MaxExt == 1
\* Length of the generated URLs.
MaxLen == 2
\* Calls of get_corrections for one coordinate in one run.
MaxCalls == 3
\* The size a bounded correction cache would be held to.
CacheMax == 2

\* self.port = 19876, and range(self.port, self.port + 100).
BasePort == 19876
PortRange == 100

\* self.server = None, for a field that otherwise holds the index of a server.
NoServer == 0

\* Every port a run can probe: the base can move up by one per port found busy.
AllPorts == BasePort..(BasePort + PortRange + MaxExt + MaxServers)
ExtPorts == BasePort..(BasePort + MaxExt - 1)

\* https://t.e/5/1/2.png : matches the first config, z >= startZoom
UrlHigh == << "h", "t", "t", "p", "s", ":", "/", "/", "t", ".", "e", "/", "5", "/", "1", "/", "2", ".", "p", "n", "g" >>
\* https://t.e/0/0/0.png : matches the first config, z < startZoom
UrlLow == << "h", "t", "t", "p", "s", ":", "/", "/", "t", ".", "e", "/", "0", "/", "0", "/", "0", ".", "p", "n", "g" >>
\* https://o.e/5/1/2.png : matches no config
UrlOther == << "h", "t", "t", "p", "s", ":", "/", "/", "o", ".", "e", "/", "5", "/", "1", "/", "2", ".", "p", "n", "g" >>
\* abc : no scheme
UrlBare == << "a", "b", "c" >>
\* https://t.e/5/1/2.png@2x : matches the third config only, by both its templates
UrlRetina == UrlHigh \o << "@", "2", "x" >>
\* https://a.c.e/5/1/2@2x.png : matches the second config
UrlCarto == << "h", "t", "t", "p", "s", ":", "/", "/", "a", ".", "c", ".", "e", "/", "5", "/", "1", "/", "2", "@", "2", "x", ".", "p", "n", "g" >>
\* http://t.e/5/1/2.png
UrlHttp == << "h", "t", "t", "p", ":", "/", "/", "t", ".", "e", "/", "5", "/", "1", "/", "2", ".", "p", "n", "g" >>
\* HTTPS://T.E/5/1/2.PNG
UrlUpper == << "H", "T", "T", "P", "S", ":", "/", "/", "T", ".", "E", "/", "5", "/", "1", "/", "2", ".", "P", "N", "G" >>
\* https://t.e/5/1/2.png?k=v
UrlQuery == UrlHigh \o << "?", "k", "=", "v" >>
\* https://t.e/12/34/56.png
UrlBig == << "h", "t", "t", "p", "s", ":", "/", "/", "t", ".", "e", "/", "1", "2", "/", "3", "4", "/", "5", "6", ".", "p", "n", "g" >>
\* https://q.e/1/2/3.png : matches both templates of the fourth config
UrlQ == << "h", "t", "t", "p", "s", ":", "/", "/", "q", ".", "e", "/", "1", "/", "2", "/", "3", ".", "p", "n", "g" >>
\* https://q.e/7/2/3.png : matches the second template of the fourth config
\* https://n.e/1/2.png
UrlNoZoom == << "h", "t", "t", "p", "s", ":", "/", "/", "n", ".", "e", "/", "1", "/", "2", ".", "p", "n", "g" >>
UrlQ7 == << "h", "t", "t", "p", "s", ":", "/", "/", "q", ".", "e", "/", "7", "/", "2", "/", "3", ".", "p", "n", "g" >>

\* https://<h>.r.e/5/1/2.png
UrlRange(h) ==
  << "h", "t", "t", "p", "s", ":", "/", "/" >> \o h \o << ".", "r", ".", "e", "/", "5", "/", "1", "/", "2", ".", "p", "n", "g" >>
\* Subdomains inside and outside the two ranges of the fifth config, and the
\* placeholders' own text.
RangeHosts ==
  {<< "a" >>, << "b" >>, << "c" >>, << "d" >>, << "1" >>, << "4" >>, << "5" >>,
   << "{", "a", "-", "c", "}" >>, << "{", "1", "-", "4", "}" >>}

SampleUrls == {UrlHigh, UrlLow, UrlOther, UrlBare, UrlRetina, UrlCarto, UrlHttp, UrlUpper,
               UrlQuery, UrlBig, UrlQ, UrlQ7, UrlNoZoom} \cup {UrlRange(h) : h \in RangeHosts}

\* The characters of the short URLs tried besides the samples: ones quote
\* keeps, ones it encodes, and the ones percent-coding itself is written with.
UrlAlphabet == {"a", "~", "/", "%", "2", "F", " ", "?", "#", ":"}

\* Every string over UrlAlphabet of length at most n.
RECURSIVE StringsUpTo(_)
StringsUpTo(n) ==
  IF n = 0 THEN {<< >>}
  ELSE StringsUpTo(n - 1) \cup {Append(u, c) : u \in StringsUpTo(n - 1), c \in UrlAlphabet}

\* The URLs the plugin's functions are called with.
FnUrls == SampleUrls \cup StringsUpTo(MaxLen)

ProxyPrefix == << "/", "p", "r", "o", "x", "y", "/" >>

\* get_proxy_url(original_url), as the record of the URL's parts.
ProxyUrl(p, original_url) ==
  [host |-> "127.0.0.1", port |-> p, path |-> ProxyPrefix \o quote(original_url)]

\* A path whose segment ends in a '%' that no two hex digits follow:
\* /proxy/https%3A%2F%2Ft.e%2F5%2F1%2F2.png%3Fk%3D%zz
PathMalformed ==
  ProxyPrefix \o quote(UrlHigh) \o << "%", "3", "F", "k", "%", "3", "D", "%", "z", "z" >>
\* /x
PathNotProxy == << "/", "x" >>

\* The request paths clients send.
Paths ==
  {ProxyUrl(BasePort, u).path : u \in {UrlHigh, UrlLow, UrlOther, UrlBare, UrlNoZoom}}
    \cup {PathMalformed, PathNotProxy}

\* Whether the segment contains a '%' not followed by two hex digits.
MalformedEncoding(s) ==
  \E i \in 1..Len(s) :
    s[i] = "%" /\ ~(i + 2 <= Len(s) /\ IsHex(s[i + 1]) /\ IsHex(s[i + 2]))

\* What urlopen(req, timeout=30) and response.read() end with.  ok: the body
\* and the Content-Type header ("" when the upstream sends none).  Otherwise
\* the class of the exception raised:
\*   URLError      host unreachable, connection refused, or the timeout
\*                 expiring while connecting or sending (urllib wraps these
\*                 OSErrors in URLError),
\*   HTTPError     an upstream 4xx or 5xx status (a subclass of URLError),
\*   TimeoutError  the timeout expiring while waiting for the status line or
\*                 in response.read(): socket.timeout, an OSError that
\*                 urllib does not wrap.
FetchOutcomes ==
  {[kind |-> "ok", exc |-> "", data |-> Raw("tileA", TRUE), ctype |-> "image/jpeg"],
   [kind |-> "ok", exc |-> "", data |-> Raw("junk", FALSE), ctype |-> ""]}
  \cup {[kind |-> "raise", exc |-> e, data |-> NoBytes, ctype |-> ""] :
          e \in {"URLError", "HTTPError", "TimeoutError"}}
NoFetch == [kind |-> "none", exc |-> "", data |-> NoBytes, ctype |-> ""]

\* An exception escaping fix_tile: never ("no"), on entry ("early"), or after
\* get_corrections has returned ("late").  fix_tile has no raise of its own;
\* this is MemoryError and the like.
Faults == {"no", "early", "late"}

(***************************************************************************)
(* State                                                                   *)
(***************************************************************************)
VARIABLES
  archive,        \* the file india_boundary_corrections.pmtiles
  have_pil,       \* "from PIL import Image, ImageDraw" succeeded
  fixer,          \* the TileInterceptor's tile_fixer: [pmtiles, header, cache]
  interceptor2,   \* a second TileInterceptor: whether constructed, its tile_fixer
  compiled,       \* the configs that have a '_compiled_patterns' key
  server,         \* TileInterceptor.server: NoServer or an index of servers
  server_thread,  \* TileInterceptor.server_thread, likewise
  port,           \* TileInterceptor.port
  servers,        \* the HTTPServer objects created: [port, sock, loop]
  extBusy,        \* the ports other processes have bound
  host,           \* the host thread: where it is, and its last call
  cur,            \* the request the server thread is handling, or handled last
  arg,            \* what a function of the plugin is called with
  res,            \* that call and what it returned
  plugin          \* IndiaBoundaryCorrectorPlugin: [interceptor, enabled, pc, op]

vars == << archive, have_pil, fixer, interceptor2, compiled, server, server_thread, port,
           servers, extBusy, host, cur, arg, res, plugin >>

\* The plugin after __init__: self.interceptor = None, self.enabled = False.
\* interceptor tells whether self.interceptor is a TileInterceptor.
NoPlugin == [interceptor |-> FALSE, enabled |-> FALSE, pc |-> "idle", op |-> "init"]

\* No function called yet.
NoResult ==
  [op |-> "none", path |-> << >>, url |-> << >>, config |-> NoConfig, coords |-> NoCoords,
   key |-> << >>, ret |-> EmptyDict, raised |-> "no",
   z |-> 0, stops |-> << >>, width |-> 0, none |-> TRUE, strokes |-> << >>]

\* No second TileInterceptor constructed.
NoInterceptor == [constructed |-> FALSE, tile_fixer |-> NewFixer]

IdleRequest ==
  [pc |-> "idle", path |-> << >>, url |-> << >>, fetch |-> NoFetch,
   status |-> 0, body |-> NoBytes, ctype |-> "",
   matchRan |-> FALSE, config |-> NoConfig, fixCalled |-> FALSE, fixRaised |-> FALSE]

Init ==
  /\ archive \in ArchiveFiles
  /\ have_pil \in BOOLEAN
  /\ fixer = NewFixer
  /\ interceptor2 = NoInterceptor
  /\ compiled = {}
  /\ server = NoServer
  /\ server_thread = NoServer
  /\ port = BasePort
  /\ servers = << >>
  /\ extBusy = {}
  /\ host = [pc |-> "idle", op |-> "init", result |-> ""]
  /\ cur = IdleRequest
  /\ arg = << >>
  /\ res = NoResult
  /\ plugin = NoPlugin


(***************************************************************************)
(* tile_interceptor.py: TileProxyHandler.do_GET                            *)
(***************************************************************************)
\* The body send_error writes.
ErrorPage == Raw("error-page", FALSE)

\* The request r answered by send_error(code).
SendError(r, code) == [r EXCEPT !.pc = "done", !.status = code, !.body = ErrorPage,
                                !.ctype = "text/html"]

\* Whether urllib.request.unquote raises on the segment: it does not, for
\* any string.
unquote_raises(encoded_url) == FALSE

\* Whether urllib.request.Request finds a URL type: some ':' preceded by one
\* or more characters, none of them '/' or ':'.  Otherwise it raises ValueError.
HasScheme(u) ==
  \E i \in 2..Len(u) : u[i] = ":" /\ \A j \in 1..(i - 1) : u[j] \notin {"/", ":"}

\* The status sent for an exception of class exc raised by the fetch:
\* "except urllib.error.URLError" first, then "except Exception".
FetchErrorStatus(exc) == IF exc \in {"URLError", "HTTPError"} THEN 502 ELSE 500

\* do_GET from its first line to the call of urlopen.
do_GET_begin(path) ==
  LET r == [IdleRequest EXCEPT !.path = path] IN
  IF ~StartsWith(path, ProxyPrefix) THEN SendError(r, 404)
  ELSE LET encoded_url == Drop(path, 7) IN
       IF unquote_raises(encoded_url) THEN SendError(r, 400)
       ELSE LET original_url == unquote(encoded_url) IN
            IF ~HasScheme(original_url)
            THEN SendError([r EXCEPT !.url = original_url], FetchErrorStatus("ValueError"))
            ELSE [r EXCEPT !.url = original_url, !.pc = "fetching"]

\* CallsFix without "if z >= config.get('startZoom', 0)".
CallsFix_any_zoom(config, coords) ==
  /\ config # NoConfig
  /\ coords.found

\* Whether do_GET calls fix_tile for a URL: it matches a config, its
\* coordinates are extracted, and z is at least the config's startZoom.
CallsFix(config, coords) ==
  /\ config # NoConfig
  /\ coords.found
  /\ coords.z >= Get(LAYER_CONFIGS[config], "startZoom", 0)

\* corrected_data without "corrected_data = original_data" before the test.
corrected_data_uninit(original_data, called, raised, fixed) ==
  IF called /\ ~raised /\ ~fixed.none THEN fixed.data ELSE NoBytes

\* corrected_data: the bytes fix_tile returned, the original bytes when it
\* was not called, returned None or raised.
corrected_data(original_data, called, raised, fixed) ==
  IF called /\ ~raised /\ ~fixed.none THEN fixed.data ELSE original_data

\* do_GET_respond without the try/except around fix_tile: the exception
\* reaches the server, and the client gets an error instead of the tile.
do_GET_respond_uncaught(r, outcome, config, called, raised, fixed) ==
  [cur |-> IF raised
           THEN SendError([r EXCEPT !.fetch = outcome, !.matchRan = TRUE, !.config = config,
                                    !.fixCalled = called, !.fixRaised = raised], 500)
           ELSE [r EXCEPT !.pc = "done", !.fetch = outcome, !.status = 200,
                          !.body = corrected_data(outcome.data, called, raised, fixed),
                          !.ctype = IF outcome.ctype = "" THEN "image/png" ELSE outcome.ctype,
                          !.matchRan = TRUE, !.config = config,
                          !.fixCalled = called, !.fixRaised = raised],
   fixer |-> fixed.fixer, matched |-> TRUE]

\* do_GET from "Send response" on: the request afterwards and the fixer
\* afterwards.
do_GET_respond(r, outcome, config, called, raised, fixed) ==
  [cur |-> [r EXCEPT !.pc = "done", !.fetch = outcome, !.status = 200,
                     !.body = corrected_data(outcome.data, called, raised, fixed),
                     !.ctype = IF outcome.ctype = "" THEN "image/png" ELSE outcome.ctype,
                     !.matchRan = TRUE, !.config = config,
                     !.fixCalled = called, !.fixRaised = raised],
   fixer |-> fixed.fixer, matched |-> TRUE]

\* do_GET once the config and the coordinates are known: the call of fix_tile.
do_GET_fix(r, fx, file, pil, outcome, fault, config, coords) ==
  do_GET_respond(r, outcome, config, CallsFix(config, coords),
                 CallsFix(config, coords) /\ fault # "no",
                 IF CallsFix(config, coords) /\ fault # "early"
                 THEN fix_tile(fx, file, pil, outcome.data, config, coords.z, coords.x, coords.y)
                 ELSE ReturnNone(fx))

\* do_GET once match_url has returned config.
do_GET_match(r, fx, file, pil, outcome, fault, config) ==
  do_GET_fix(r, fx, file, pil, outcome, fault, config,
             IF config # NoConfig THEN extract_coords(r.url, config) ELSE NoCoords)

\* do_GET with match_url called before the outcome of the fetch is looked at.
do_GET_end_match_first(r, fx, file, pil, outcome, fault) ==
  IF outcome.kind = "raise"
  THEN [cur |-> SendError([r EXCEPT !.fetch = outcome, !.matchRan = TRUE,
                                    !.config = match_url(r.url)],
                          FetchErrorStatus(outcome.exc)),
        fixer |-> fx, matched |-> TRUE]
  ELSE do_GET_match(r, fx, file, pil, outcome, fault, match_url(r.url))

\* do_GET from the return of the fetch to the end.
do_GET_end(r, fx, file, pil, outcome, fault) ==
  IF outcome.kind = "raise"
  THEN [cur |-> SendError([r EXCEPT !.fetch = outcome], FetchErrorStatus(outcome.exc)),
        fixer |-> fx, matched |-> FALSE]
  ELSE do_GET_match(r, fx, file, pil, outcome, fault, match_url(r.url))

(***************************************************************************)
(* The server thread: HTTPServer.serve_forever handles one request at a    *)
(* time and looks at the shutdown flag between requests.                   *)
(***************************************************************************)
\* do_GET_begin for each path clients send.
Received == [path \in Paths |-> do_GET_begin(path)]

\* A request arrives and do_GET runs up to the upstream fetch.
Accept(path) ==
  /\ server # NoServer
  /\ servers[server].loop = "serving"
  /\ host.pc # "in_shutdown"
  /\ cur.pc # "fetching"
  /\ cur' = Received[path]
  /\ UNCHANGED << plugin, archive, have_pil, interceptor2, arg, res, fixer, compiled, server, server_thread, port,
                  servers, extBusy, host >>

\* TileProxyHandler.tile_fixer, which self.tile_fixer reads in do_GET: the
\* class attribute, assigned by every TileInterceptor.__init__.
tile_fixer == IF interceptor2.constructed THEN interceptor2.tile_fixer ELSE fixer

\* Fetch with a serve_forever that leaves its loop when a request ends in a
\* 5xx status.
Fetch_stop_on_error(outcome, fault) ==
  /\ cur.pc = "fetching"
  /\ \E d \in {do_GET_end(cur, tile_fixer, archive, have_pil, outcome, fault)} :
       /\ \A k \in DOMAIN d.fixer.calls : d.fixer.calls[k] <= MaxCalls
       /\ cur' = d.cur
       /\ fixer' = IF interceptor2.constructed THEN fixer ELSE d.fixer
       /\ interceptor2' = IF interceptor2.constructed
                          THEN [interceptor2 EXCEPT !.tile_fixer = d.fixer]
                          ELSE interceptor2
       /\ compiled' = IF d.matched THEN compiled \cup Visited(d.cur.config) ELSE compiled
       /\ servers' = IF d.cur.status >= 500 /\ server # NoServer
                     THEN [servers EXCEPT ![server].loop = "exited"]
                     ELSE servers
  /\ UNCHANGED << plugin, archive, have_pil, arg, res, server, server_thread, port, extBusy, host >>

\* The upstream fetch ends and do_GET runs to its end.
Fetch(outcome, fault) ==
  /\ cur.pc = "fetching"
  /\ \E d \in {do_GET_end(cur, tile_fixer, archive, have_pil, outcome, fault)} :
       /\ \A k \in DOMAIN d.fixer.calls : d.fixer.calls[k] <= MaxCalls
       /\ cur' = d.cur
       /\ fixer' = IF interceptor2.constructed THEN fixer ELSE d.fixer
       /\ interceptor2' = IF interceptor2.constructed
                          THEN [interceptor2 EXCEPT !.tile_fixer = d.fixer]
                          ELSE interceptor2
       /\ compiled' = IF d.matched THEN compiled \cup Visited(d.cur.config) ELSE compiled
  /\ UNCHANGED << plugin, archive, have_pil, arg, res, server, server_thread, port, servers, extBusy, host >>

(***************************************************************************)
(* tile_interceptor.py: TileInterceptor                                    *)
(***************************************************************************)
\* The ports some socket is bound to: those of other processes, and those of
\* this process's servers whose socket has not been closed.
BusyPorts ==
  extBusy \cup {servers[i].port : i \in {n \in 1..Len(servers) : servers[n].sock = "open"}}

\* The port enable() binds when it starts from port p: the first of
\* range(p, p + 100) that binds; 0 when none does.
FirstFree(p, busy) ==
  LET free == {q \in p..(p + PortRange - 1) : q \notin busy}
  IN  IF free = {} THEN 0 ELSE CHOOSE q \in free : \A f \in free : q <= f

\* The property is_running.
is_running == server # NoServer

\* The test enable() starts with, "if self.server is not None", dropped.
already_running_never == FALSE

\* "if self.server is not None", the test enable() starts with.
already_running == server # NoServer

\* get_proxy_url(original_url)
get_proxy_url(original_url) == ProxyUrl(port, original_url)

\* enable() returning at once: the server is already running.
EnableReturn ==
  /\ host' = [pc |-> "idle", op |-> "enable", result |-> "already"]
  /\ UNCHANGED << server, server_thread, port, servers >>

\* EnableRaise with "self.port = port" done before each bind is tried.
EnableRaise_moved ==
  /\ host' = [pc |-> "idle", op |-> "enable", result |-> "RuntimeError"]
  /\ port' = port + PortRange - 1
  /\ UNCHANGED << server, server_thread, servers >>

\* enable() when no port of the range binds: the for loop's else clause.
EnableRaise ==
  /\ host' = [pc |-> "idle", op |-> "enable", result |-> "RuntimeError"]
  /\ UNCHANGED << server, server_thread, port, servers >>

\* EnableStart without "self.port = port".
EnableStart_stale(p) ==
  /\ Len(servers) < MaxServers
  /\ servers' = Append(servers, [port |-> p, sock |-> "open", loop |-> "serving"])
  /\ server' = Len(servers) + 1
  /\ server_thread' = Len(servers) + 1
  /\ port' = port
  /\ host' = [pc |-> "idle", op |-> "enable", result |-> "started"]

\* enable() when port p binds: the server is created on it, self.port is set
\* to it and the thread running serve_forever is started.
EnableStart(p) ==
  /\ Len(servers) < MaxServers
  /\ servers' = Append(servers, [port |-> p, sock |-> "open", loop |-> "serving"])
  /\ server' = Len(servers) + 1
  /\ server_thread' = Len(servers) + 1
  /\ port' = p
  /\ host' = [pc |-> "idle", op |-> "enable", result |-> "started"]

\* The body of enable().
enable ==
  IF already_running THEN EnableReturn
  ELSE IF FirstFree(port, BusyPorts) = 0 THEN EnableRaise
  ELSE EnableStart(FirstFree(port, BusyPorts))

\* enable()
Enable ==
  /\ host.pc = "idle"
  /\ enable
  /\ UNCHANGED << plugin, archive, have_pil, interceptor2, arg, res, fixer, compiled, extBusy, cur >>

\* disable(), up to server.shutdown(): nothing to do without a server,
\* otherwise the shutdown flag is set and the caller waits for the loop.
disable ==
  host' = IF server = NoServer
          THEN [pc |-> "idle", op |-> "disable", result |-> "nothing"]
          ELSE [pc |-> "in_shutdown", op |-> "disable", result |-> ""]

\* disable() called by the host itself.
Disable ==
  /\ host.pc = "idle"
  /\ disable
  /\ UNCHANGED << plugin, archive, have_pil, interceptor2, arg, res, fixer, compiled, server, server_thread, port,
                  servers, extBusy, cur >>

\* The loop finds the flag once the request in hand is finished and leaves;
\* shutdown() returns and disable() clears server and server_thread.  The
\* socket is not closed: disable() does not call server_close().
disable_return ==
  /\ host.pc = "in_shutdown"
  /\ cur.pc \notin {"reading", "fetching"}
  /\ servers' = [servers EXCEPT ![server].loop = "exited"]
  /\ server' = NoServer
  /\ server_thread' = NoServer
  /\ host' = [pc |-> "idle", op |-> "disable", result |-> "stopped"]

\* disable() called by the host itself comes to its end.
DisableReturn ==
  /\ plugin.pc = "idle"
  /\ disable_return
  /\ UNCHANGED << plugin, archive, have_pil, interceptor2, arg, res, fixer, compiled, port, extBusy, cur >>

\* The server thread has unwound and nothing refers to server i any more: the
\* garbage collector reclaims it, which closes its socket.  When that
\* happens is up to the interpreter.
Collect(i) ==
  /\ i \in 1..Len(servers)
  /\ i # server
  /\ servers[i].loop = "exited"
  /\ servers[i].sock = "open"
  /\ servers' = [servers EXCEPT ![i].sock = "closed"]
  /\ UNCHANGED << plugin, archive, have_pil, interceptor2, arg, res, fixer, compiled, server, server_thread, port,
                  extBusy, host, cur >>

(***************************************************************************)
(* Other processes on the machine                                          *)
(***************************************************************************)
ExtBind(p) ==
  /\ p \in ExtPorts \ BusyPorts
  /\ extBusy' = extBusy \cup {p}
  /\ UNCHANGED << plugin, archive, have_pil, interceptor2, arg, res, fixer, compiled, server, server_thread, port,
                  servers, host, cur >>

ExtRelease(p) ==
  /\ p \in ExtPorts \cap extBusy
  /\ extBusy' = extBusy \ {p}
  /\ UNCHANGED << plugin, archive, have_pil, interceptor2, arg, res, fixer, compiled, server, server_thread, port,
                  servers, host, cur >>

\* Every port that is free is taken.
ExtBindAll ==
  /\ AllPorts \ BusyPorts # {}
  /\ extBusy' = extBusy \cup (AllPorts \ BusyPorts)
  /\ UNCHANGED << plugin, archive, have_pil, interceptor2, arg, res, fixer, compiled, server, server_thread, port,
                  servers, host, cur >>

ExtReleaseAll ==
  /\ extBusy # {}
  /\ extBusy' = {}
  /\ UNCHANGED << plugin, archive, have_pil, interceptor2, arg, res, fixer, compiled, server, server_thread, port,
                  servers, host, cur >>

\* The proxy at work: requests, and the host enabling and disabling it.
Next ==
  \/ \E path \in Paths : Accept(path)
  \/ \E outcome \in FetchOutcomes, fault \in Faults : Fetch(outcome, fault)
  \/ Enable
  \/ Disable
  \/ DisableReturn
  \/ \E i \in 1..MaxServers : Collect(i)

Spec == Init /\ [][Next]_vars

(***************************************************************************)
(* The proxy while a second TileInterceptor is constructed in the same     *)
(* Python process.                                                         *)
(***************************************************************************)
InitTwo == Init /\ archive = ValidArchive /\ have_pil

\* TileInterceptor.__init__ of the second interceptor: a new TileFixer,
\* assigned to self.tile_fixer and to TileProxyHandler.tile_fixer.
Construct ==
  /\ ~interceptor2.constructed
  /\ interceptor2' = [constructed |-> TRUE, tile_fixer |-> NewFixer]
  /\ UNCHANGED << plugin, archive, have_pil, fixer, compiled, server, server_thread, port,
                  servers, extBusy, host, cur, arg, res >>

NextTwo ==
  \/ Next
  \/ Construct

SpecTwo == InitTwo /\ [][NextTwo]_vars

\* The proxy's life cycle on a machine whose other processes bind and release
\* ports; no request is sent.
InitPorts == Init /\ archive = ValidArchive /\ have_pil

NextPorts ==
  \/ Enable
  \/ Disable
  \/ DisableReturn
  \/ \E i \in 1..MaxServers : Collect(i)
  \/ \E p \in ExtPorts : ExtBind(p)
  \/ \E p \in ExtPorts : ExtRelease(p)
  \/ ExtBindAll
  \/ ExtReleaseAll

SpecPorts == InitPorts /\ [][NextPorts]_vars

(***************************************************************************)
(* The plugin's functions called on their own with a URL.                  *)
(***************************************************************************)
InitFn ==
  /\ archive = ValidArchive
  /\ have_pil = TRUE
  /\ fixer = NewFixer
  /\ interceptor2 = NoInterceptor
  /\ compiled = {}
  /\ server = NoServer
  /\ server_thread = NoServer
  /\ port = BasePort
  /\ servers = << >>
  /\ extBusy = {}
  /\ host = [pc |-> "idle", op |-> "init", result |-> ""]
  /\ cur = IdleRequest
  /\ arg \in FnUrls
  /\ res = NoResult
  /\ plugin = NoPlugin

\* The host asks for the proxy URL of arg, and that URL's path is sent to
\* the handler, which decodes it.
CallGetProxyUrl ==
  /\ \E d \in {get_proxy_url(arg).path} :
       res' = [NoResult EXCEPT !.op = "get_proxy_url", !.path = d, !.url = do_GET_begin(d).url]
  /\ UNCHANGED << plugin, archive, have_pil, interceptor2, fixer, compiled, server, server_thread, port,
                  servers, extBusy, host, cur, arg >>

\* match_url(arg)
CallMatchUrl ==
  /\ \E config \in {match_url(arg)} :
       /\ res' = [NoResult EXCEPT !.op = "match_url", !.config = config]
       /\ compiled' = compiled \cup Visited(config)
  /\ UNCHANGED << plugin, archive, have_pil, interceptor2, fixer, server, server_thread, port,
                  servers, extBusy, host, cur, arg >>

\* extract_coords(arg, LAYER_CONFIGS[c])
CallExtractCoords(c) ==
  /\ res' = [NoResult EXCEPT !.op = "extract_coords", !.config = c,
                             !.coords = extract_coords(arg, c)]
  /\ compiled' = compiled \cup {c}
  /\ UNCHANGED << plugin, archive, have_pil, interceptor2, fixer, server, server_thread, port,
                  servers, extBusy, host, cur, arg >>

NextFn ==
  \/ CallGetProxyUrl
  \/ CallMatchUrl
  \/ \E c \in ConfigIds : CallExtractCoords(c)

SpecFn == InitFn /\ [][NextFn]_vars

(***************************************************************************)
(* The style functions called on their own.                                *)
(***************************************************************************)
MaxStops == 3
MaxZoom == 11
MaxFeatures == 2

\* Zooms written as dict keys, and widths in tenths (0.5 and 2.5 are the
\* default stops of fix_tile; the others have no exact binary form).
StopKeys == {<< "1" >>, << "4" >>, << "7" >>, << "1", "0" >>}
StopWidths == {1, 5, 9, 25}

\* The dicts of at most n stops, in every order of their keys.
RECURSIVE StopDicts(_)
StopDicts(n) ==
  IF n = 0 THEN {<< >>}
  ELSE StopDicts(n - 1) \cup
       UNION {{Append(s, [k |-> k, v |-> v]) :
                 k \in StopKeys \ {s[i].k : i \in 1..Len(s)}, v \in StopWidths} :
              s \in StopDicts(n - 1)}

\* The arguments of get_line_width.
WidthArgs ==
  {[fn |-> "get_line_width", z |-> z, stops |-> s] :
     z \in 0..MaxZoom, s \in StopDicts(MaxStops)}

\* The feature lists of a tile's OSM layers: at most MaxFeatures lines each.
RECURSIVE FeatureLists(_)
FeatureLists(n) ==
  IF n = 0 THEN {<< >>}
  ELSE FeatureLists(n - 1) \cup
       {Append(l, f) : l \in {m \in FeatureLists(n - 1) : Len(m) = n - 1},
                       f \in {"lineA", "lineB"}}

\* The correction sets fix_tile is given.  get_corrections stores none with
\* features, so fix_tile's drawing is exercised on a cache that has been
\* filled from outside, as a test of fix_tile would.
DrawCorrections ==
  {[n \in LayerNames |->
      CASE n = "to-add-osm" -> a
        [] n = "to-del-osm" -> d
        [] n = "to-add-ne" -> na
        [] OTHER -> nd] :
     a \in FeatureLists(MaxFeatures), d \in FeatureLists(MaxFeatures),
     na \in {<< >>, << "lineN" >>}, nd \in {<< >>, << "lineM" >>}}

\* The config and zoom arguments of fix_tile: zooms below and above the
\* first config's startZoom, zoomThreshold and second style.
DrawArgs == {[fn |-> "fix_tile", c |-> c, z |-> z] : c \in ConfigIds, z \in {0, 4, 5, 6}}

InitStyle ==
  /\ archive = ValidArchive
  /\ have_pil = TRUE
  /\ \/ /\ arg \in WidthArgs
        /\ fixer = NewFixer
     \/ /\ arg \in DrawArgs
        /\ fixer \in {[NewFixer EXCEPT !.cache = (<< arg.z, 1, 2 >> :> corrections)] :
                       corrections \in DrawCorrections}
  /\ interceptor2 = NoInterceptor
  /\ compiled = {}
  /\ server = NoServer
  /\ server_thread = NoServer
  /\ port = BasePort
  /\ servers = << >>
  /\ extBusy = {}
  /\ host = [pc |-> "idle", op |-> "init", result |-> ""]
  /\ cur = IdleRequest
  /\ res = NoResult
  /\ plugin = NoPlugin

\* get_line_width(z, line_width_stops)
CallGetLineWidth ==
  /\ arg.fn = "get_line_width"
  /\ res' = [NoResult EXCEPT !.op = "get_line_width", !.z = arg.z, !.stops = arg.stops,
                             !.width = get_line_width(arg.z, arg.stops)]
  /\ UNCHANGED << plugin, archive, have_pil, interceptor2, fixer, compiled, server, server_thread, port,
                  servers, extBusy, host, cur, arg >>

\* fix_tile(tile_data, config, z, 1, 2) on a decodable tile.
CallFixTile ==
  /\ arg.fn = "fix_tile"
  /\ \E f \in {fix_tile(fixer, archive, have_pil, Raw("tileA", TRUE), arg.c, arg.z, 1, 2)} :
       /\ f.fixer.calls[<< arg.z, 1, 2 >>] <= MaxCalls
       /\ fixer' = f.fixer
       /\ res' = [NoResult EXCEPT !.op = "fix_tile", !.config = arg.c, !.z = arg.z,
                                  !.key = << arg.z, 1, 2 >>, !.none = f.none,
                                  !.strokes = f.data.strokes]
  /\ UNCHANGED << plugin, archive, have_pil, interceptor2, compiled, server, server_thread, port,
                  servers, extBusy, host, cur, arg >>

NextStyle ==
  \/ CallGetLineWidth
  \/ CallFixTile

SpecStyle == InitStyle /\ [][NextStyle]_vars

(***************************************************************************)
(* The tile fixer called on its own with tile coordinates.                 *)
(***************************************************************************)
\* One coordinate more than a cache of CacheMax entries holds; 5/1/2 is the
\* tile stored in the archive, and zoom 30 is above any zoom an archive
\* header declares.
FixerCoords == {<< 5, 1, 2 + i >> : i \in 0..(CacheMax - 1)} \cup {<< 30, 0, 0 >>}

InitFixer == Init /\ have_pil

\* get_corrections(z, x, y)
GetCorrections(z, x, y) ==
  /\ \E g \in {get_corrections(fixer, archive, z, x, y)} :
       /\ g.fixer.calls[<< z, x, y >>] <= MaxCalls
       /\ fixer' = g.fixer
       /\ res' = [NoResult EXCEPT !.op = "get_corrections", !.key = << z, x, y >>,
                                  !.ret = g.ret, !.raised = g.raised]
  /\ UNCHANGED << plugin, archive, have_pil, interceptor2, compiled, server, server_thread, port,
                  servers, extBusy, host, cur, arg >>

NextFixer == \E k \in FixerCoords : GetCorrections(k[1], k[2], k[3])

SpecFixer == InitFixer /\ [][NextFixer]_vars

(***************************************************************************)
(* The proxy and, beside it, the fixer's own operations: get_corrections   *)
(* called directly, and close().                                           *)
(***************************************************************************)
\* close(): the handle is closed and forgotten; the header and the cache stay.
Close ==
  /\ fixer.pmtiles # None
  /\ fixer' = [fixer EXCEPT !.pmtiles = None]
  /\ UNCHANGED << plugin, archive, have_pil, interceptor2, compiled, server, server_thread, port,
                  servers, extBusy, host, cur, arg, res >>

\* The archives that get an entry stored: the valid one, and one with a bad
\* magic token, whose handle stays open after the first, failed call.
InitCache == InitFixer /\ archive \in {ValidArchive, BadMagic}

\* The tile of the requests, and another one.
CacheCoords == {<< 5, 1, 2 >>, << 5, 1, 3 >>}

\* Requests for the tile 5/1/2 whose fetch succeeds, the life cycle of the
\* server, and the fixer's own operations.
NextCache ==
  \/ Accept(ProxyUrl(BasePort, UrlHigh).path)
  \/ \E outcome \in {o \in FetchOutcomes : o.kind = "ok"} : Fetch(outcome, "no")
  \/ Enable
  \/ Disable
  \/ DisableReturn
  \/ Close
  \/ \E k \in CacheCoords : GetCorrections(k[1], k[2], k[3])

SpecCache == InitCache /\ [][NextCache]_vars

(***************************************************************************)
(* plugin.py: IndiaBoundaryCorrectorPlugin.  Its operations run on the     *)
(* host's GUI thread, one at a time; the proxy serves requests meanwhile.  *)
(***************************************************************************)
\* self.enabled at the end of enable_correction with "self.enabled = True"
\* placed before "self.interceptor.enable()".
enabled_after_enable_set_first(result, enabled) == TRUE

\* self.enabled at the end of enable_correction: "self.enabled = True" comes
\* after enable() and is skipped when enable() raises; the except branch
\* does not assign it.
enabled_after_enable(result, enabled) ==
  IF result = "RuntimeError" THEN enabled ELSE TRUE

\* enable_correction(): the interceptor is constructed if there is none,
\* enable() is called, and its exception is caught and shown.
enable_correction(op) ==
  /\ host.pc = "idle"
  /\ plugin.pc = "idle"
  /\ plugin.op # "unload"
  /\ enable
  /\ plugin' = [interceptor |-> TRUE,
                enabled |-> enabled_after_enable(host'.result, plugin.enabled),
                pc |-> "idle", op |-> op]
  /\ UNCHANGED << archive, have_pil, interceptor2, arg, res, fixer, compiled, extBusy, cur >>

\* disable_correction() up to the return of disable(): without an
\* interceptor, or with a stopped one, it goes on at once to
\* "self.enabled = False"; otherwise it waits in server.shutdown().
disable_correction(op) ==
  /\ host.pc = "idle"
  /\ plugin.pc = "idle"
  /\ plugin.op # "unload"
  /\ IF plugin.interceptor /\ server # NoServer
     THEN /\ disable
          /\ plugin' = [plugin EXCEPT !.pc = "in_disable", !.op = op]
     ELSE /\ IF plugin.interceptor THEN disable ELSE UNCHANGED host
          /\ plugin' = [plugin EXCEPT !.enabled = FALSE, !.op = op]
  /\ UNCHANGED << archive, have_pil, interceptor2, arg, res, fixer, compiled, server, server_thread,
                  port, servers, extBusy, cur >>

\* disable() returns to disable_correction, which sets self.enabled = False.
DisableCorrectionEnd ==
  /\ plugin.pc = "in_disable"
  /\ disable_return
  /\ plugin' = [plugin EXCEPT !.enabled = FALSE, !.pc = "idle"]
  /\ UNCHANGED << archive, have_pil, interceptor2, arg, res, fixer, compiled, port, extBusy, cur >>

\* toggle_correction(checked), the slot of the toolbar action.
ToggleCorrection(checked) ==
  IF checked THEN enable_correction("toggle_correction")
  ELSE disable_correction("toggle_correction")

EnableCorrection == enable_correction("enable_correction")

DisableCorrection == disable_correction("disable_correction")

\* unload(): disable_correction(), then the action is removed from the menu
\* and the toolbar; the host drops the plugin object afterwards.
Unload == disable_correction("unload")

\* The plugin on a machine whose other processes take and release ports,
\* with requests for one tile.
NextPlugin ==
  \/ \E checked \in BOOLEAN : ToggleCorrection(checked)
  \/ EnableCorrection
  \/ DisableCorrection
  \/ Unload
  \/ DisableCorrectionEnd
  \/ Accept(ProxyUrl(BasePort, UrlHigh).path)
  \/ \E outcome \in {o \in FetchOutcomes : o.kind = "ok"} : Fetch(outcome, "no")
  \/ \E i \in 1..MaxServers : Collect(i)
  \/ ExtBindAll
  \/ ExtReleaseAll

SpecPlugin == InitPorts /\ [][NextPlugin]_vars

(***************************************************************************)
(* The server thread and its clients' connections.  serve_forever accepts  *)
(* a connection and runs the handler itself, on the one server thread; the *)
(* handler reads the request line from the socket before do_GET is called, *)
(* and TileProxyHandler sets no timeout for that read.                     *)
(***************************************************************************)
\* A client connects: the connection is accepted and the handler waits for
\* the request line.
Connect ==
  /\ server # NoServer
  /\ servers[server].loop = "serving"
  /\ host.pc # "in_shutdown"
  /\ cur.pc \notin {"reading", "fetching"}
  /\ cur' = [IdleRequest EXCEPT !.pc = "reading"]
  /\ UNCHANGED << plugin, archive, have_pil, interceptor2, arg, res, fixer, compiled, server,
                  server_thread, port, servers, extBusy, host >>

\* The client sends its request: do_GET runs up to the upstream fetch.
Receive(path) ==
  /\ cur.pc = "reading"
  /\ cur' = Received[path]
  /\ UNCHANGED << plugin, archive, have_pil, interceptor2, arg, res, fixer, compiled, server,
                  server_thread, port, servers, extBusy, host >>

\* The client closes the connection without a request: the handler returns.
Hangup ==
  /\ cur.pc = "reading"
  /\ cur' = IdleRequest
  /\ UNCHANGED << plugin, archive, have_pil, interceptor2, arg, res, fixer, compiled, server,
                  server_thread, port, servers, extBusy, host >>

\* The upstream fetch ends, for a request that matches a config.
FetchEnds == \E outcome \in FetchOutcomes : Fetch(outcome, "no")

NextLive ==
  \/ Enable
  \/ Disable
  \/ DisableReturn
  \/ Connect
  \/ Receive(ProxyUrl(BasePort, UrlHigh).path)
  \/ Hangup
  \/ FetchEnds
  \/ \E i \in 1..MaxServers : Collect(i)

\* The fetch is given up: urlopen(req, timeout=30) raises once the upstream
\* has been silent for 30 seconds.
FetchTimesOut ==
  Fetch([kind |-> "raise", exc |-> "TimeoutError", data |-> NoBytes, ctype |-> ""], "no")

\* urlopen has a timeout of 30 seconds, so a fetch ends; the loop of
\* serve_forever looks at the shutdown flag when the request in hand is
\* finished, and at least every half second when idle.  What a client does
\* with its connection, and when, is up to the client.
SpecLive ==
  /\ InitPorts
  /\ [][NextLive]_vars
  /\ WF_vars(FetchTimesOut)
  /\ WF_vars(DisableReturn)

(***************************************************************************)
(* Properties                                                              *)
(***************************************************************************)
\* No pattern of any config matches url.
MatchesNoConfig(url) ==
  \A c \in ConfigIds : \A i \in 1..Len(CompiledPatterns[c]) :
    ~PatternMatch(CompiledPatterns[c][i], url).ok

\* The request in cur has been answered after a successful upstream fetch.
AnsweredAfterFetch == cur.pc = "done" /\ cur.fetch.kind = "ok"

\* C1: a request whose upstream fetch succeeds and whose decoded URL matches
\* no layer config is answered 200 with exactly the upstream bytes, and
\* fix_tile is not called for it.
C1_PassThrough ==
  (AnsweredAfterFetch /\ MatchesNoConfig(cur.url))
    => (cur.status = 200 /\ cur.body = cur.fetch.data /\ ~cur.fixCalled)

\* C1: an unmatched URL has been fetched and answered.
C1_Witness ==
  AnsweredAfterFetch /\ cur.url = UrlOther /\ cur.matchRan /\ cur.config = NoConfig

\* C2: a request whose upstream fetch fails (host unreachable, upstream HTTP
\* error, timeout while connecting or while reading) ends with status 502,
\* and neither URL matching nor fix_tile runs for it.
C2_FetchFailureIs502 ==
  (cur.pc = "done" /\ cur.fetch.kind = "raise")
    => (cur.status = 502 /\ ~cur.matchRan /\ ~cur.fixCalled)

\* C3: when the archive has a bad magic token, a version other than 3, or is
\* missing, every request whose upstream fetch succeeds is answered 200 with
\* the untouched upstream bytes.
C3_FailOpen ==
  (archive \in {BadMagic, BadVersion, MissingArchive} /\ AnsweredAfterFetch)
    => (cur.status = 200 /\ cur.body = cur.fetch.data)

\* C3: with a bad magic token, a later request for a matched URL has been
\* answered: the handle is open, no header was parsed, and the lookup of an
\* earlier request is already in the cache.
C3_Witness ==
  /\ archive = BadMagic /\ have_pil
  /\ AnsweredAfterFetch /\ cur.fixCalled /\ ~cur.fixRaised /\ cur.fetch.data.img
  /\ fixer.pmtiles # None /\ ~fixer.header.parsed /\ DOMAIN fixer.cache # {}

\* C4: when the upstream bytes are not a decodable image, or fix_tile raises,
\* the request is still answered 200 with the original upstream bytes.
C4_RenderFallback ==
  (AnsweredAfterFetch /\ (~cur.fetch.data.img \/ cur.fixRaised))
    => (cur.status = 200 /\ cur.body = cur.fetch.data)

\* C4: fix_tile was called on bytes that are no image and raised.
C4_Witness ==
  AnsweredAfterFetch /\ cur.fixCalled /\ cur.fixRaised /\ ~cur.fetch.data.img

\* C5: a request /proxy/{segment} whose segment has malformed percent-encoding
\* is answered 400 and no upstream fetch is started for it.
C5_MalformedIs400 ==
  (cur.pc # "idle" /\ StartsWith(cur.path, ProxyPrefix)
     /\ MalformedEncoding(Drop(cur.path, 7)))
    => (cur.pc = "done" /\ cur.status = 400 /\ cur.fetch.kind = "none")

\* A call of enable() returns: the only steps that change host and leave
\* host.op = "enable".
EnableStep == host' # host /\ host'.op = "enable"

\* The servers whose serve_forever loop is running.
Serving == {i \in 1..Len(servers) : servers[i].loop = "serving"}

\* C6: enable() on a running interceptor creates no server, binds no socket,
\* starts no thread and leaves server, server_thread and port as they are;
\* while the interceptor is running exactly one server is serving, its own.
C6_EnableIdempotent ==
  /\ [](is_running => Serving = {server})
  /\ [][(EnableStep /\ is_running)
          => UNCHANGED << server, server_thread, port, servers >>]_vars

\* C6: enable() has been called on a running interceptor.
C6_Witness ==
  host.op = "enable" /\ host.result = "already" /\ is_running /\ Serving = {server}

\* C7: once disable() has returned, no socket of the interceptor is still
\* bound: the port is free for the next enable().
C7_DisableReleasesSocket ==
  (host.pc = "idle" /\ host.op = "disable" /\ host.result = "stopped")
    => \A i \in 1..Len(servers) : servers[i].sock = "closed"

\* C8: every enable() that starts a server binds the lowest port of
\* [19876, 19876 + 100) that is free, in every cycle.
C8_FixedBase ==
  [][(EnableStep /\ ~is_running /\ host'.result = "started")
       => port' = FirstFree(BasePort, BusyPorts)]_vars

\* C9: when no port of the probed range can be bound, enable() raises and
\* leaves server and server_thread None, port unchanged and no server or
\* thread created; the interceptor stays stopped and idle until the next call.
C9_FailedEnableLeavesStopped ==
  /\ [](host.result = "RuntimeError"
          => (host.pc = "idle" /\ ~is_running /\ server_thread = NoServer))
  /\ [][(EnableStep /\ ~is_running /\ FirstFree(port, BusyPorts) = 0)
          => /\ host'.result = "RuntimeError"
             /\ server' = NoServer /\ server_thread' = NoServer
             /\ port' = port /\ servers' = servers]_vars

\* C9: enable() has raised because every port of its range was bound.
C9_Witness ==
  /\ host.op = "enable" /\ host.result = "RuntimeError"
  /\ ~is_running /\ FirstFree(port, BusyPorts) = 0

\* C10: while is_running, port is the port the server's socket is bound to,
\* and get_proxy_url gives a URL on 127.0.0.1 at that port.
C10_PortIsBoundPort ==
  is_running =>
    /\ servers[server].sock = "open"
    /\ port = servers[server].port
    /\ \A u \in {UrlHigh, UrlOther} :
         /\ get_proxy_url(u).host = "127.0.0.1"
         /\ get_proxy_url(u).port = servers[server].port

\* C10: the server runs on a port other than the default one.
C10_Witness ==
  is_running /\ servers[server].port # BasePort /\ get_proxy_url(UrlHigh).port # BasePort


\* C11: for every original URL u, the path of get_proxy_url(u) is /proxy/
\* followed by one segment that contains no '/', and the handler's decoding
\* of that segment (strip /proxy/, percent-decode) yields exactly u.
C11_ProxyUrlRoundTrip ==
  res.op = "get_proxy_url" =>
    /\ StartsWith(res.path, ProxyPrefix)
    /\ \A i \in (Len(ProxyPrefix) + 1)..Len(res.path) : res.path[i] # "/"
    /\ res.url = arg

\* A URL with a '/' and a '%' in it has made the round trip.
C11_Witness ==
  /\ res.op = "get_proxy_url"
  /\ \E i, j \in 1..Len(arg) : arg[i] = "/" /\ arg[j] = "%"


\* C12: the server handles connections concurrently: while one request is
\* blocked in its upstream fetch, a second connection is accepted and
\* answered without waiting for the first one to finish.
C12_ConcurrentRequests ==
  (cur.pc = "fetching" /\ is_running /\ host.pc = "idle")
    => ENABLED (\E path \in Paths : Accept(path))


\* Every coordinate get_corrections was called for went through exactly one
\* computation and has its cache entry.
OneComputationEach ==
  \A k \in DOMAIN fixer.calls :
    k \in DOMAIN fixer.lookups /\ fixer.lookups[k] = 1 /\ k \in DOMAIN fixer.cache

C14_Idempotent ==
  [][(res.op = "get_corrections" /\ res'.op = "get_corrections" /\ res'.key = res.key)
       => res'.ret = res.ret]_vars

\* C15: failures are not cached: the cache only ever holds results of
\* lookups made against an archive that was opened and whose header was
\* validated, and a failed lookup leaves no entry for its coordinate.
C15_FailuresNotCached ==
  /\ DOMAIN fixer.cache # {} => fixer.header.parsed
  /\ (res.op = "get_corrections" /\ res.ret = EmptyDict) => res.key \notin DOMAIN fixer.cache

\* C16: the correction cache is bounded: the number of its entries never
\* exceeds a fixed maximum (an insertion into a full cache evicts an entry).
C16_CacheBounded == Cardinality(DOMAIN fixer.cache) <= CacheMax

\* C17: get_corrections never raises: for every coordinate and every archive
\* state it returns a mapping from layer names to feature lists, possibly
\* the empty mapping.
C17_NeverRaises ==
  res.op = "get_corrections" =>
    /\ res.raised = "no"
    /\ DOMAIN res.ret \subseteq LayerNames

\* A lookup against an archive that cannot be opened or validated returned
\* the empty mapping, and so did one for a zoom outside any archive's bounds.
C17_Witness ==
  /\ res.op = "get_corrections"
  /\ archive # ValidArchive
  /\ res.ret = EmptyDict
  /\ res.key[1] = 30

\* C18: for a coordinate covered by a directory entry of the archive the
\* lookup returns that tile's data: the features returned are those stored
\* in the archive.
C18_LookupReturnsStoredTile ==
  (res.op = "get_corrections" /\ archive = ValidArchive /\ res.key \in DOMAIN archive.tiles)
    => res.ret = archive.tiles[res.key]


\* C19: match_url returns the first config of the table that has a matching
\* template: when several configs match it is the one with the smallest
\* index, and the result is none exactly when no template of any config
\* matches.
C19_FirstMatchWins ==
  res.op = "match_url" =>
    /\ (res.config = NoConfig) <=> MatchesNoConfig(arg)
    /\ res.config # NoConfig =>
         /\ ConfigMatches(res.config, arg)
         /\ \A c \in 1..(res.config - 1) : ~ConfigMatches(c, arg)

\* A URL that the first and the third config both match was given the first.
C19_Witness ==
  res.op = "match_url" /\ res.config = 1 /\ ConfigMatches(3, arg)

\* The templates of config c that match url, by index; the least of a set.
MatchingTemplates(c, url) ==
  {i \in 1..Len(CompiledPatterns[c]) : PatternMatch(CompiledPatterns[c][i], url).ok}

CompleteTemplates(c) ==
  {i \in 1..Len(CompiledPatterns[c]) : {"z", "x", "y"} \subseteq Groups(CompiledPatterns[c][i])}

Least(S) == CHOOSE i \in S : \A j \in S : i <= j

\* The integers template i of config c finds at its placeholders in url.
CoordsByTemplate(c, i, url) ==
  [found |-> TRUE,
   z |-> ToInt(PatternMatch(CompiledPatterns[c][i], url).caps.z),
   x |-> ToInt(PatternMatch(CompiledPatterns[c][i], url).caps.x),
   y |-> ToInt(PatternMatch(CompiledPatterns[c][i], url).caps.y)]

\* C20, as stated: extract_coords returns the integers at the {z}, {x} and
\* {y} positions of the first template of the config that matches the URL,
\* and none when no template of the config matches.
C20_FirstMatchingTemplate ==
  res.op = "extract_coords" =>
    IF MatchingTemplates(res.config, arg) = {} THEN ~res.coords.found
    ELSE res.coords = CoordsByTemplate(res.config, Least(MatchingTemplates(res.config, arg)), arg)

\* C20, amended: extract_coords returns the integers at the {z}, {x} and {y}
\* positions of the first template that matches the URL among the config's
\* templates that have all three placeholders, and none when no such
\* template matches.
C20_FirstCompleteMatchingTemplate ==
  res.op = "extract_coords" =>
    IF MatchingTemplates(res.config, arg) \cap CompleteTemplates(res.config) = {}
    THEN ~res.coords.found
    ELSE res.coords =
           CoordsByTemplate(res.config,
                            Least(MatchingTemplates(res.config, arg)
                                    \cap CompleteTemplates(res.config)), arg)

\* The first template that matches has no {z}; the coordinates are those of
\* the second.
C20_Witness ==
  /\ res.op = "extract_coords"
  /\ 1 \in MatchingTemplates(res.config, arg) \ CompleteTemplates(res.config)
  /\ res.coords = [found |-> TRUE, z |-> 1, x |-> 2, y |-> 3]

(***************************************************************************)
(* Schemes and range placeholders of the templates.                        *)
(***************************************************************************)
Https == << "h", "t", "t", "p", "s", ":" >>
\* The same URL under the http scheme.
HttpOf(url) == << "h", "t", "t", "p" >> \o Drop(url, 5)
\* The same URL with the query string ?k=v after it.
WithQuery(url) == url \o << "?", "k", "=", "v" >>

\* C21: a URL that a config matches under the https scheme is matched by the
\* same config, with the same coordinates, under the http scheme and with a
\* query string after it.
C21_SchemeInsensitive ==
  (res.op = "match_url" /\ res.config # NoConfig /\ StartsWith(arg, Https))
    => \A u \in {HttpOf(arg), WithQuery(arg), WithQuery(HttpOf(arg))} :
         /\ match_url(u) = res.config
         /\ extract_coords(u, res.config) = extract_coords(arg, res.config)

\* C22: a URL that fits a template of the fifth config but for its
\* subdomain is matched exactly when the subdomain is one character of the
\* range a..c or of the range 1..4.
C22_RangePlaceholders ==
  (res.op = "match_url" /\ \E h \in RangeHosts : arg = UrlRange(h))
    => (res.config = 5
          <=> \E h \in RangeHosts :
                /\ arg = UrlRange(h)
                /\ Len(h) = 1
                /\ (InRange(h[1], "a", "c") \/ InRange(h[1], "1", "4")))

(***************************************************************************)
(* Line widths.                                                            *)
(***************************************************************************)
\* The stops of the dict as a set of [z, w].
StopSet(line_width_stops) ==
  {Items(line_width_stops)[i] : i \in 1..Len(line_width_stops)}
Lowest(S) == CHOOSE a \in S : \A b \in S : a.z <= b.z
Highest(S) == CHOOSE a \in S : \A b \in S : a.z >= b.z
MinWidth(S) == CHOOSE w \in {a.w : a \in S} : \A b \in S : w <= b.w
MaxWidth(S) == CHOOSE w \in {a.w : a \in S} : \A b \in S : w >= b.w
\* The pairs of stops with no stop between them in numeric zoom order.
Adjacent(S) ==
  {p \in S \X S : p[1].z < p[2].z /\ ~\E c \in S : p[1].z < c.z /\ c.z < p[2].z}
Abs(i) == IF i < 0 THEN 0 - i ELSE i

\* The width is the lowest stop's at or below it and the highest stop's at
\* or above it.
Clamped(z, S, width) ==
  /\ z <= Lowest(S).z => width = Lowest(S).w
  /\ z >= Highest(S).z => width = Highest(S).w

\* C23 as stated: get_line_width is the lowest stop's width at or below the
\* lowest stop, the highest stop's width at or above the highest stop, and in
\* every case a width between the smallest and the largest stop width.
C23_WithinStopWidths ==
  (res.op = "get_line_width" /\ res.stops # << >>)
    => /\ Clamped(res.z, StopSet(res.stops), res.width)
       /\ MinWidth(StopSet(res.stops)) <= res.width
       /\ res.width <= MaxWidth(StopSet(res.stops))

\* C23 amended: get_line_width is the lowest stop's width at or below the
\* lowest stop, the highest stop's width at or above the highest stop, and
\* between two stops adjacent in numeric zoom order it is within two
\* spacings of the largest stop width of w1 + (z - z1)/(z2 - z1) * (w2 - w1);
\* it leaves the range of the stop widths by one such spacing at most.
C23_InterpolationRounded ==
  (res.op = "get_line_width" /\ res.stops # << >>)
    => /\ Clamped(res.z, StopSet(res.stops), res.width)
       /\ \A p \in Adjacent(StopSet(res.stops)) :
            (p[1].z <= res.z /\ res.z <= p[2].z)
              => Abs(res.width * (p[2].z - p[1].z)
                       - (p[1].w * (p[2].z - p[1].z) + (res.z - p[1].z) * (p[2].w - p[1].w)))
                   <= 2 * Grain(MaxWidth(StopSet(res.stops))) * (p[2].z - p[1].z)
       /\ MinWidth(StopSet(res.stops)) - Grain(MaxWidth(StopSet(res.stops))) <= res.width
       /\ res.width <= MaxWidth(StopSet(res.stops)) + Grain(MaxWidth(StopSet(res.stops)))

\* Three stops given out of numeric order, a zoom at the middle one, and a
\* width below the smallest stop width.
C23_Witness ==
  /\ res.op = "get_line_width"
  /\ Len(res.stops) = 3
  /\ Items(res.stops) # sorted(Items(res.stops))
  /\ Lowest(StopSet(res.stops)).z < res.z
  /\ res.z < Highest(StopSet(res.stops)).z
  /\ res.width < MinWidth(StopSet(res.stops))

(***************************************************************************)
(* The config table.                                                       *)
(***************************************************************************)
\* C24: no record of LAYER_CONFIGS ever has a key it was not loaded with:
\* none gains '_compiled_patterns'.
C24_ConfigTableImmutable == \A c \in ConfigIds : c \notin compiled

(***************************************************************************)
(* The steps of a request.                                                 *)
(***************************************************************************)
\* The request is one for /proxy/... and has been answered.
ProxyAnswered == cur.pc = "done" /\ StartsWith(cur.path, ProxyPrefix)

\* Nothing is matched, corrected or answered before the fetch has returned;
\* match_url runs only after a successful fetch, fix_tile only after a
\* successful match, and a finished request has one response.
StepsInOrder ==
  /\ cur.pc = "fetching"
       => (~cur.matchRan /\ ~cur.fixCalled /\ cur.status = 0 /\ cur.fetch = NoFetch)
  /\ ProxyAnswered
       => /\ cur.status # 0
          /\ cur.matchRan => cur.fetch.kind = "ok"
          /\ cur.fixCalled => (cur.matchRan /\ cur.config # NoConfig)
          /\ cur.fetch.kind = "raise" => cur.status \in {500, 502}

\* A step calls get_corrections, and so fix_tile, at most once.
FixAtMostOnce ==
  \A k \in DOMAIN fixer'.calls :
    /\ fixer'.calls[k] <= Get(fixer.calls, k, 0) + 1
    /\ \A j \in DOMAIN fixer'.calls :
         (j # k /\ fixer'.calls[k] # Get(fixer.calls, k, 0))
           => fixer'.calls[j] = Get(fixer.calls, j, 0)

\* C25 as stated: every answered request for /proxy/... has made its one
\* upstream fetch, and the steps are in order.
C25_OneFetchThenMatch ==
  /\ [](StepsInOrder /\ (ProxyAnswered => cur.fetch.kind # "none"))
  /\ [][FixAtMostOnce]_vars

\* C25 amended: an answered request for /proxy/... has made one upstream
\* fetch when its decoded URL has a scheme and none when it has not, in
\* which case it is answered 500 without match_url or fix_tile; the steps
\* are in order.
C25_AtMostOneFetchThenMatch ==
  /\ [](/\ StepsInOrder
        /\ ProxyAnswered
             => /\ cur.fetch.kind # "none" <=> HasScheme(cur.url)
                /\ ~HasScheme(cur.url)
                     => (cur.status = 500 /\ ~cur.matchRan /\ ~cur.fixCalled))
  /\ [][FixAtMostOnce]_vars

\* A request fetched, matched and passed to fix_tile, then answered 200.
C25_Witness ==
  /\ ProxyAnswered
  /\ cur.fetch.kind = "ok"
  /\ cur.matchRan
  /\ cur.fixCalled
  /\ cur.status = 200
  /\ fixer.calls # << >>

(***************************************************************************)
(* The server after a request.                                             *)
(***************************************************************************)
\* The last request ended in an error status or in an exception of
\* fix_tile that do_GET caught.
EndedInFailure ==
  cur.pc = "done" /\ (cur.status \in {404, 400, 502, 500} \/ cur.fixRaised)

\* C26: no step of a request changes the server, its thread or the loop of
\* any server; and after a request that ended in a failure, with no
\* disable() under way, the server is still running, its loop is still
\* serving and the next request is accepted.
C26_KeepsServing ==
  /\ [][cur' # cur => UNCHANGED << server, server_thread, servers >>]_vars
  /\ []((EndedInFailure /\ is_running /\ host.pc = "idle")
          => (server \in Serving /\ ENABLED (\E path \in Paths : Accept(path))))

\* A request answered 502 by a server that is running.
C26_Witness ==
  /\ EndedInFailure
  /\ cur.status = 502
  /\ is_running
  /\ host.pc = "idle"

(***************************************************************************)
(* The fixer of a server.                                                  *)
(***************************************************************************)
\* C27: the requests of the first interceptor's server are corrected with
\* that interceptor's own TileFixer: no step of a request reads or changes
\* the TileFixer of the second interceptor, whenever that one is constructed.
C27_OwnFixer ==
  [][cur' # cur => (interceptor2' = interceptor2 /\ tile_fixer = fixer)]_vars

(***************************************************************************)
(* The order of the strokes.                                               *)
(***************************************************************************)
\* The layer fix_tile takes its add (kind "add") or delete (kind "del")
\* features from, for config c at zoom z.
SelectedLayer(kind, c, z) ==
  IF z >= Get(LAYER_CONFIGS[c], "zoomThreshold", 5)
  THEN "to-" \o kind \o "-osm" ELSE "to-" \o kind \o "-ne"

\* The features fix_tile was given in that layer.
Selected(kind) == fixer.cache[res.key][SelectedLayer(kind, res.config, res.z)]

\* The colors of the styles of config c active at zoom z, in declared order.
ActiveColors(c, z) ==
  [a \in 1..Len(get_line_styles_for_zoom(c, z)) |->
     Get(LAYER_CONFIGS[c].lineStyles[get_line_styles_for_zoom(c, z)[a]], "color", "green")]

\* C28: the strokes fix_tile draws are one per delete feature, in order,
\* and then, for each zoom-active style in declared order, one per add
\* feature, in order and in the style's color: no delete stroke comes after
\* an add stroke.
C28_DeleteBeforeAdd ==
  (res.op = "fix_tile" /\ ~res.none)
    => /\ Len(res.strokes)
            = Len(Selected("del"))
              + Len(ActiveColors(res.config, res.z)) * Len(Selected("add"))
       /\ \A i \in 1..Len(Selected("del")) :
            /\ res.strokes[i].kind = "del"
            /\ res.strokes[i].feature = Selected("del")[i]
            /\ res.strokes[i].color = "gray"
       /\ \A a \in 1..Len(ActiveColors(res.config, res.z)) :
            \A b \in 1..Len(Selected("add")) :
              /\ res.strokes[Len(Selected("del")) + (a - 1) * Len(Selected("add")) + b].kind
                   = "add"
              /\ res.strokes[Len(Selected("del")) + (a - 1) * Len(Selected("add")) + b].feature
                   = Selected("add")[b]
              /\ res.strokes[Len(Selected("del")) + (a - 1) * Len(Selected("add")) + b].color
                   = ActiveColors(res.config, res.z)[a]
       /\ \A i, j \in 1..Len(res.strokes) :
            (res.strokes[i].kind = "add" /\ res.strokes[j].kind = "del") => j < i

\* Two styles active, two add features and a delete feature: five strokes.
C28_Witness ==
  /\ res.op = "fix_tile"
  /\ ~res.none
  /\ Len(ActiveColors(res.config, res.z)) = 2
  /\ Len(Selected("add")) = 2
  /\ Len(Selected("del")) >= 1
  /\ Len(res.strokes) >= 5

(***************************************************************************)
(* What the corrections come to.                                           *)
(***************************************************************************)
\* C29: with an archive that opens, every get_corrections call has stored
\* four empty lists for its coordinate, fix_tile returns None for the
\* request's tile, on decodable and undecodable bytes alike, and every
\* response with status 200 carries the upstream bytes unchanged.
C29_NothingDrawn ==
  /\ archive = ValidArchive
       => /\ \A k \in DOMAIN fixer.calls : k \in DOMAIN fixer.cache
          /\ \A k \in DOMAIN fixer.cache : fixer.cache[k] = EmptyCorrections
          /\ \A k \in DOMAIN fixer.cache, c \in ConfigIds, decodable \in BOOLEAN :
               fix_tile(fixer, archive, have_pil, Raw("tileA", decodable), c,
                        k[1], k[2], k[3]).none
  /\ (cur.pc = "done" /\ cur.status = 200)
       => (cur.fetch.kind = "ok" /\ cur.body = cur.fetch.data /\ ~cur.body.reenc)

\* A decodable tile of a matched URL, passed to fix_tile with PIL present
\* and a valid archive, and answered 200.
C29_Witness ==
  /\ archive = ValidArchive /\ have_pil
  /\ cur.pc = "done" /\ cur.status = 200
  /\ cur.fixCalled /\ ~cur.fixRaised /\ cur.fetch.data.img
  /\ << 5, 1, 2 >> \in DOMAIN fixer.cache

(***************************************************************************)
(* The cache's entries.                                                    *)
(***************************************************************************)
\* C30: whatever the step - a request with its fix_tile and get_corrections,
\* get_corrections called directly, close, enable or disable - every entry
\* of the cache is still there afterwards with the value it had, and the
\* correction set the last direct call returned is still the one stored.
C30_EntriesNeverChange ==
  [][/\ \A k \in DOMAIN fixer.cache :
          k \in DOMAIN fixer'.cache /\ fixer'.cache[k] = fixer.cache[k]
     /\ (res.op = "get_corrections" /\ DOMAIN res.ret # {})
          => (res.key \in DOMAIN fixer'.cache /\ fixer'.cache[res.key] = res.ret)]_vars

\* An entry that a direct call stored has since been read by a request, and
\* the handle has been closed.
C30_Witness ==
  /\ res.op = "get_corrections"
  /\ res.key = << 5, 1, 2 >>
  /\ res.key \in DOMAIN fixer.cache
  /\ fixer.calls[res.key] >= 2
  /\ cur.pc = "done" /\ cur.fixCalled
  /\ fixer.pmtiles = None
  /\ Cardinality(DOMAIN fixer.cache) >= 2

(***************************************************************************)
(* The widths of the strokes.                                              *)
(***************************************************************************)
\* The widthFraction of the styles of config c active at zoom z, in declared
\* order.
ActiveFractions(c, z) ==
  [a \in 1..Len(get_line_styles_for_zoom(c, z)) |->
     FloatOf(Get(LAYER_CONFIGS[c].lineStyles[get_line_styles_for_zoom(c, z)[a]],
                 "widthFraction", 10))]

\* The style an add stroke belongs to, from its place i among the strokes.
StyleOfStroke(i) == ((i - Len(Selected("del")) - 1) \div Len(Selected("add"))) + 1

\* Every stroke is asked for at the product of the base width and its
\* factor: delWidthFactor for a delete feature, the style's widthFraction
\* for an add feature.
ProductWidths ==
  \A i \in 1..Len(res.strokes) :
    res.strokes[i].width
      = IF res.strokes[i].kind = "del"
        THEN fmul(base_width(res.config, res.z),
                  FloatOf(Get(LAYER_CONFIGS[res.config], "delWidthFactor", 15)))
        ELSE fmul(base_width(res.config, res.z),
                  ActiveFractions(res.config, res.z)[StyleOfStroke(i)])

\* C31: every stroke of fix_tile is asked for at the product of the base
\* width and its factor, and the width given to the drawing call is that
\* product.
C31_StrokeWidths ==
  (res.op = "fix_tile" /\ ~res.none)
    => /\ ProductWidths
       /\ \A i \in 1..Len(res.strokes) :
            res.strokes[i].line_width * One = res.strokes[i].width

(***************************************************************************)
(* Requests the handler leaves uncorrected.                                *)
(***************************************************************************)
\* The request r was fetched and its URL matches a config, but its zoom is
\* below the config's startZoom or its coordinates cannot be extracted.
BelowStartOrNoCoords(r) ==
  /\ r.pc = "done"
  /\ r.fetch.kind = "ok"
  /\ match_url(r.url) # NoConfig
  /\ \/ ~extract_coords(r.url, match_url(r.url)).found
     \/ extract_coords(r.url, match_url(r.url)).z
          < Get(LAYER_CONFIGS[match_url(r.url)], "startZoom", 0)

\* C32: a request whose URL matches a config, with a zoom below the config's
\* startZoom or with coordinates that cannot be extracted, is answered 200
\* with the upstream bytes, and fix_tile is not called: the handling of the
\* request leaves the fixer as it was.
C32_NotFixedBelowStart ==
  [][(cur.pc = "fetching" /\ BelowStartOrNoCoords(cur'))
       => /\ ~cur'.fixCalled
          /\ cur'.status = 200
          /\ cur'.body = cur'.fetch.data
          /\ fixer' = fixer]_vars

\* Both cases were answered: zoom 0 under a startZoom of 1, and a config
\* whose only template has no {z}.
C32_Witness ==
  /\ BelowStartOrNoCoords(cur)
  /\ cur.url \in {UrlLow, UrlNoZoom}
  /\ cur.url = UrlNoZoom => ~extract_coords(cur.url, match_url(cur.url)).found
  /\ cur.url = UrlLow => extract_coords(cur.url, match_url(cur.url)).found
  /\ cur.body = Raw("tileA", TRUE)

(***************************************************************************)
(* The archive handle and its header.                                      *)
(***************************************************************************)
\* C33: an open archive handle implies a validated header: whenever _pmtiles
\* is not None, _header is the header parsed from the file, whose magic and
\* version were checked; and no lookup is answered from, or cached for, an
\* archive whose header failed validation.
C33_OpenHandleHasHeader ==
  /\ fixer.pmtiles # None
       => /\ fixer.header.parsed
          /\ read_header(archive).raised = "no"
          /\ fixer.header = read_header(archive).header
  /\ DOMAIN fixer.cache # {} => read_header(archive).raised = "no"
  /\ (res.op = "get_corrections" /\ DOMAIN res.ret # {})
       => read_header(archive).raised = "no"

Stopped ==
  /\ host.pc = "idle"
  /\ host.op = "disable"
  /\ server = NoServer
  /\ server_thread = NoServer

\* A step of disable() called on a stopped interceptor.
DisableWhenStopped == host.pc = "idle" /\ host'.op = "disable" /\ host' # host /\ server = NoServer

\* C35: disable() terminates from every state: on a running interceptor it
\* eventually returns with server and server_thread None, and on a stopped
\* one it returns at once and changes nothing.
C35_DisableTerminates ==
  /\ (host.pc = "in_shutdown") ~> Stopped
  /\ [][DisableWhenStopped
          => /\ host'.pc = "idle"
             /\ UNCHANGED << server, server_thread, port, servers, cur, fixer >>]_vars
====
